---- MODULE Spec2Model ----
(***************************************************************************)
(* Verification model of picori (GameCube / Wii binary formats).           *)
(*                                                                         *)
(*   SpecRel   the REL relocation iterator (src/src/rel.rs)                *)
(*   SpecYaz0  yaz0::decompress_into, one loop iteration per step          *)
(*             (src/src/yaz0.rs)                                           *)
(*   SpecReader Yaz0Reader::new and its Read / Seek implementations, next  *)
(*             to the underlying stream used on its own                    *)
(*   SpecIsYaz0 yaz0::is_yaz0 on a stream                                  *)
(*   SpecFst   the FileIterator of a parsed Fst (src/src/gcm/fst.rs)       *)
(*   SpecGcm   Gcm::from_binary, one parsed part per step                  *)
(*             (src/src/gcm/mod.rs)                                        *)
(*   SpecCiso  CisoReader::new and decompress (src/src/ciso.rs)            *)
(*   SpecDol   dol::from_bytes (src/src/format/dol.rs)                     *)
(*   SpecSjis  the Shift JIS 2004 decoder                                  *)
(*             (src/src/encoding/shift_jis_2004.rs)                        *)
(*   SpecCodec all and first of the Ascii, JIS X 0201 and Shift JIS codecs *)
(*   SpecRelParse Rel::from_binary on a REL image (src/src/rel.rs)         *)
(*   SpecFstFair SpecFst with a consumer that calls next() up to its None  *)
(*   SpecFstParse Fst::deserialize (src/src/gcm/fst.rs)                    *)
(*   SpecRarc  the Nodes iterator of a RarcReader (src/src/rarc.rs)        *)
(*                                                                         *)
(* Indices are 0-based as in the Rust source; TLA+ sequences are 1-based,  *)
(* so element i of a Vec v is v[i + 1].                                    *)
(***************************************************************************)
EXTENDS Integers, Sequences, FiniteSets, TLC

VARIABLES
    import_tables,  \* Rel::import_tables : Vec<ImportTable>
    iter,           \* RelocationIterator {table, section, index, offset}
    yielded,        \* the Some(..) results of next(), with the import they came from
    last,           \* result of the most recent next() call
    calls,          \* number of next() calls made
    input,          \* decompress_into: the input stream, a Cursor {data, pos}
    destination,    \* decompress_into: the caller's output slice
    dec,            \* decompress_into: the locals {dest, code, code_bits}
    result,         \* decompress_into: "running", "Ok", an error, or "panic"
    backref,        \* the back-reference the last loop iteration decoded
    reader,         \* Yaz0Reader::reader, the underlying stream (a Cursor)
    yaz0reader,     \* Yaz0Reader {decompressed, position, transparent}
    new_result,     \* what Yaz0Reader::new returned: "NotCalled", "Ok", "Err", "panic"
    new_base,       \* Yaz0Reader::new: `base`, the position of the stream at the call
    ret,            \* result of the last read / seek on the Yaz0Reader
    plain,          \* the same stream used without a Yaz0Reader, from base
    plain_ret,      \* result of the last read / seek on that stream
    isy_input,      \* is_yaz0: the input stream, a Cursor
    isy_base,       \* is_yaz0: position of the stream when is_yaz0 is called
    isy_ret,        \* is_yaz0: None before the call, then Some(returned bool)
    entries,        \* Fst::entries : Vec<Entry>
    file_iter,      \* FileIterator {index, last_index_of_directory, path}
    fst_yielded,    \* the items next() returned so far
    fst_done,       \* next() has returned None
    gcm_image,      \* Gcm::from_binary: what the image holds
    gcm_checks,     \* the build has integer overflow checks (debug) or not
    gcm_reader,     \* Gcm::from_binary: the stream
    gcm,            \* Gcm::from_binary: stage, result, locals, parsed parts
    ciso_file,      \* the CISO file behind the stream given to CisoReader::new
    ciso_reader,    \* CisoReader::new's result, the Header and the block index
    ciso_output,    \* the bytes decompress has written
    ciso_ret,       \* decompress: "NotCalled", "running", "Ok" or the error
    dol_bytes,      \* from_bytes: the bytes of the .dol file
    dol_ret,        \* from_bytes: "NotCalled", or what it returned
    sjis_input,     \* ShiftJis2004::iter: the bytes behind the byte iterator
    sjis_decoder,   \* shift_jis_2004::Decoder {iter, buffered}
    sjis_steps,     \* the calls of next() made: item and bytes consumed
    codec_input,    \* all / first of a codec: the bytes given
    codec_ret,      \* the codec called and what its all and first returned
    rel_file,       \* Rel::from_binary: the image behind the stream {origin, len, words}
    rel_ret,        \* Rel::from_binary: whether called, the build, what it returned
    fst_file,       \* Fst::deserialize: the stream and the fst_size given
    fst_ret,        \* Fst::deserialize: what it returned
    rarc,           \* RarcReader {directories, nodes, root_node}
    nodes_iter,     \* Nodes::stack
    rarc_yielded,   \* the items next() returned so far
    rarc_done       \* next() has returned None

vars == <<import_tables, iter, yielded, last, calls,
          input, destination, dec, result, backref,
          reader, yaz0reader, new_result, new_base, ret, plain, plain_ret,
          isy_input, isy_base, isy_ret,
          entries, file_iter, fst_yielded, fst_done,
          gcm_image, gcm_checks, gcm_reader, gcm,
          ciso_file, ciso_reader, ciso_output, ciso_ret,
          dol_bytes, dol_ret,
          sjis_input, sjis_decoder, sjis_steps,
          codec_input, codec_ret,
          rel_file, rel_ret,
          fst_file, fst_ret,
          rarc, nodes_iter, rarc_yielded, rarc_done>>

(***************************************************************************)
(* Bounds                                                                  *)
(***************************************************************************)
\* import records (End records included) in the import streams of one Rel
MaxImportRecords == 5

\* bytes of a Yaz0 payload
MaxPayloadLen == 5

\* bytes of the payload behind a Yaz0 header given to Yaz0Reader::new
MaxStreamPayload == 4

\* largest stream position a seek of the model moves to
MaxPos == 22

\* Option<T>: None is the empty sequence, Some(x) the one-element sequence
None == <<>>
Some(x) == <<x>>

(***************************************************************************)
(* REL: imports and import tables                                          *)
(***************************************************************************)
RelocationKinds ==
    {"Addr32", "Addr24", "Addr16", "Addr16Lo", "Addr16Hi", "Addr16Ha",
     "Addr14", "Rel24", "Rel14"}

ImportKind ==
    RelocationKinds \cup
    {"None", "DolphinNop", "DolphinSection", "DolphinEnd", "DolphinMRKREF"}

Import(kind, section, offset, addend) ==
    [kind |-> kind, section |-> section, offset |-> offset, addend |-> addend]

EndImport == Import("DolphinEnd", 0, 0, 0)

\* parse_imports: every table takes the records of its stream up to and
\* including the first End record.  `flat` is the concatenation of the
\* streams of the tables, in table order.
RECURSIVE TablesOf(_, _, _)
TablesOf(flat, cur, module) ==
    IF flat = <<>> THEN <<>>
    ELSE IF Head(flat).kind = "DolphinEnd"
         THEN <<[module |-> module, imports |-> Append(cur, Head(flat))]>>
              \o TablesOf(Tail(flat), <<>>, module + 1)
         ELSE TablesOf(Tail(flat), Append(cur, Head(flat)), module)

(***************************************************************************)
(* REL: RelocationIterator::next                                           *)
(***************************************************************************)
\* mutant: the MRKREF arm is missing, MRKREF falls into the relocation arm
SkippedKinds_noMRKREF == {"None", "DolphinEnd"}

\* import kinds whose match arm only recurses into next()
SkippedKinds == {"None", "DolphinEnd", "DolphinMRKREF"}

\* mutant: the running offset is left out of the target offset
MakeRelocation_noRunningOffset(kind, table, import, s) ==
    [kind      |-> kind,
     module    |-> table.module,
     reference |-> [section |-> import.section, offset |-> import.addend],
     target    |-> [section |-> s.section[1], offset |-> import.offset]]

\* the Relocation built for a relocation-kind import when a section is set
MakeRelocation(kind, table, import, s) ==
    [kind      |-> kind,
     module    |-> table.module,
     reference |-> [section |-> import.section, offset |-> import.addend],
     target    |-> [section |-> s.section[1],
                    offset  |-> s.offset + import.offset]]

\* one call of next(): the new iterator state, the value returned and the
\* position (table, index) of the import the call stopped at
RECURSIVE IterNext(_, _)
IterNext(tabs, s) ==
    LET
        \* the import table is exhausted: move to the next one
        TableAdvance(it) == [it EXCEPT !.index = 0, !.table = @ + 1]

        \* ImportKind::DolphinNop.  offset is a u32 and import.offset a u16: the sum
        \* stays below 2^32 for every stream of fewer than 65537 records.
        OnNop(it, import) == [it EXCEPT !.offset = @ + import.offset]

        \* ImportKind::DolphinSection
        OnSection(it, import) ==
            [it EXCEPT !.section = Some(import.section), !.offset = 0]
    IN
        IF s.table >= Len(tabs)
        THEN [st |-> s, result |-> None, at |-> <<s.table, s.index>>]
        ELSE LET table == tabs[s.table + 1] IN
             IF s.index >= Len(table.imports)
             THEN IterNext(tabs, TableAdvance(s))
             ELSE LET import == table.imports[s.index + 1]
                      s1     == [s EXCEPT !.index = @ + 1]
                  IN  IF import.kind \in SkippedKinds
                      THEN IterNext(tabs, s1)
                      ELSE IF import.kind = "DolphinNop"
                      THEN IterNext(tabs, OnNop(s1, import))
                      ELSE IF import.kind = "DolphinSection"
                      THEN IterNext(tabs, OnSection(s1, import))
                      ELSE IF s1.section # None
                      THEN LET relocation ==
                                   MakeRelocation(import.kind, table, import, s1)
                           IN  [st     |-> [s1 EXCEPT !.offset = relocation.target.offset],
                                result |-> Some(relocation),
                                at     |-> <<s.table, s.index>>]
                      ELSE [st |-> s1, result |-> None, at |-> <<s.table, s.index>>]

\* Rel::relocations
NewIterator == [table |-> 0, section |-> None, index |-> 0, offset |-> 0]


(***************************************************************************)
(* Yaz0: decompress_into                                                   *)
(***************************************************************************)
\* std::io::Cursor over a byte slice
Cursor(data, pos) == [data |-> data, pos |-> pos]

\* Read::read_exact on a Cursor: all n bytes or an error; after an error the
\* Cursor stands at the end of its data
ReadExact(inp, n) ==
    IF inp.pos + n <= Len(inp.data)
    THEN [ok |-> TRUE, bytes |-> SubSeq(inp.data, inp.pos + 1, inp.pos + n),
          inp |-> [inp EXCEPT !.pos = @ + n]]
    ELSE [ok |-> FALSE, bytes |-> <<>>,
          inp |-> [inp EXCEPT !.pos = Len(inp.data)]]

\* Parser::u8: read_into_tracked of one byte; a stream that has ended gives
\* Error::ReadFailed
ReadU8(inp) ==
    LET r == ReadExact(inp, 1)
    IN  [ok |-> r.ok, value |-> IF r.ok THEN r.bytes[1] ELSE 0, inp |-> r.inp]

\* Parser::bu32: four bytes, big endian
ReadBu32(inp) ==
    LET r == ReadExact(inp, 4)
    IN  [ok |-> r.ok,
         value |-> IF r.ok
                   THEN ((r.bytes[1] * 256 + r.bytes[2]) * 256 + r.bytes[3]) * 256
                        + r.bytes[4]
                   ELSE 0,
         inp |-> r.inp]

Zeros(n) == [i \in 1..n |-> 0]

\* for n in 0..length { destination[dest] = destination[base + n]; dest += 1 }
\* Indexing destination[dest] with dest == destination.len() panics.
RECURSIVE CopyLoop(_, _, _, _, _)
CopyLoop(d, dest, base, n, length) ==
    LET
        \* destination[i]; an index outside the slice has no defined value
        DestAt(slice, i) == IF i >= 0 /\ i < Len(slice) THEN slice[i + 1] ELSE 0
    IN
        IF n >= length THEN [destination |-> d, dest |-> dest, panic |-> FALSE]
        ELSE IF dest >= Len(d)
             THEN [destination |-> d, dest |-> dest, panic |-> TRUE]
             ELSE CopyLoop([d EXCEPT ![dest + 1] = DestAt(d, base + n)],
                           dest + 1, base, n + 1, length)

\* mutant: the range check admits offset == dest
BackrefInRange_inclusive(offset, dest) == offset <= dest

\* ensure!(offset < dest, UnexpectedEndOfData)
BackrefInRange(offset, dest) == offset < dest

\* mutant: the copy starts offset, not offset + 1, bytes back
BackrefBase_offByOne(dest, offset) == dest - offset

\* let base = dest - (offset + 1)
BackrefBase(dest, offset) == dest - (offset + 1)

\* mutant: the three-byte form adds 0x10 instead of 0x12
BackrefLength_short(b, extra) == IF b = 0 THEN extra + 16 ELSE b + 2

\* the length of a back-reference from the high nibble b of byte0 and,
\* when b is 0, the extra byte
BackrefLength(b, extra) == IF b = 0 THEN extra + 18 ELSE b + 2

DecState(inp, d, l, res, br) ==
    [input |-> inp, destination |-> d, dec |-> l, result |-> res, backref |-> br]

\* the body of `while dest < size`, from the state s = {input, destination,
\* dec, result, backref}
LoopBody(s) ==
    LET
        \* code <<= 1; code_bits -= 1
        ShiftCode(l, dest) ==
            [dest |-> dest, code |-> l.code * 2, code_bits |-> l.code_bits - 1]
    IN
        LET rc == IF s.dec.code_bits = 0 THEN ReadU8(s.input)
                  ELSE [ok |-> TRUE, value |-> s.dec.code, inp |-> s.input]
            l1 == IF s.dec.code_bits = 0
                  THEN [s.dec EXCEPT !.code = rc.value, !.code_bits = 8]
                  ELSE s.dec
        IN
        IF ~rc.ok THEN DecState(rc.inp, s.destination, s.dec, "ReadFailed", None)
        ELSE IF (l1.code \div 128) % 2 # 0
        THEN \* literal
             LET rb == ReadU8(rc.inp) IN
             IF ~rb.ok
             THEN DecState(rb.inp, s.destination, l1, "ReadFailed", None)
             ELSE DecState(rb.inp,
                           [s.destination EXCEPT ![l1.dest + 1] = rb.value],
                           ShiftCode(l1, l1.dest + 1), "running", None)
        ELSE \* back-reference
             LET r0 == ReadU8(rc.inp)
                 r1 == ReadU8(r0.inp)
                 a  == r0.value % 16
                 b  == r0.value \div 16
                 offset == a * 256 + r1.value
                 r2 == IF b = 0 THEN ReadU8(r1.inp)
                       ELSE [ok |-> TRUE, value |-> 0, inp |-> r1.inp]
                 length == BackrefLength(b, r2.value)
                 base == BackrefBase(l1.dest, offset)
                 br == Some([offset |-> offset, length |-> length,
                             dest |-> l1.dest, base |-> base])
             IN
             IF ~r0.ok THEN DecState(r0.inp, s.destination, l1, "ReadFailed", None)
             ELSE IF ~r1.ok THEN DecState(r1.inp, s.destination, l1, "ReadFailed", None)
             ELSE IF ~r2.ok THEN DecState(r2.inp, s.destination, l1, "ReadFailed", None)
             ELSE IF ~BackrefInRange(offset, l1.dest)
             THEN DecState(r2.inp, s.destination, l1, "UnexpectedEndOfData", br)
             ELSE LET c == CopyLoop(s.destination, l1.dest, base, 0, length) IN
                  IF c.panic
                  THEN DecState(r2.inp, c.destination,
                                [l1 EXCEPT !.dest = c.dest], "panic", br)
                  ELSE DecState(r2.inp, c.destination,
                                ShiftCode(l1, c.dest), "running", br)

\* let mut dest = 0; let mut code = 0; let mut code_bits = 0;
DecLocals == [dest |-> 0, code |-> 0, code_bits |-> 0]


(***************************************************************************)
(* Yaz0: decompress, Header, Yaz0Reader                                    *)
(***************************************************************************)
\* decompress_into from its first loop test to its return
RECURSIVE RunDecompress(_)
RunDecompress(s) ==
    IF s.result # "running" THEN s
    ELSE IF s.dec.dest < Len(s.destination) THEN RunDecompress(LoopBody(s))
    ELSE [s EXCEPT !.result = "Ok"]

\* decompress: a zeroed Vec of decompressed_size bytes, filled by
\* decompress_into
Decompress(inp, decompressed_size) ==
    RunDecompress(DecState(inp, Zeros(decompressed_size), DecLocals, "running", None))

\* Header::from_binary: magic, decompressed_size and two reserved words
HeaderFromBinary(inp) ==
    LET m  == ReadBu32(inp)
        sz == ReadBu32(m.inp)
        r0 == ReadBu32(sz.inp)
        r1 == ReadBu32(r0.inp)
    IN  IF ~m.ok THEN [ok |-> FALSE, magic |-> 0, decompressed_size |-> 0, inp |-> m.inp]
        ELSE IF ~sz.ok THEN [ok |-> FALSE, magic |-> 0, decompressed_size |-> 0, inp |-> sz.inp]
        ELSE IF ~r0.ok THEN [ok |-> FALSE, magic |-> 0, decompressed_size |-> 0, inp |-> r0.inp]
        ELSE IF ~r1.ok THEN [ok |-> FALSE, magic |-> 0, decompressed_size |-> 0, inp |-> r1.inp]
        ELSE [ok |-> TRUE, magic |-> m.value, decompressed_size |-> sz.value,
              inp |-> r1.inp]

\* mutant: every magic is taken for valid
IsValid_any(header) == TRUE

\* Header::is_valid
IsValid(header) ==
    LET
        \* 0x59617A30, "Yaz0"
        YAZ0_MAGIC == 1499560496
    IN
        header.magic = YAZ0_MAGIC

\* mutant: the stream is left where the header read stopped
Goto_stay(inp, pos) == inp

\* Seeker::goto on a Cursor: seek(SeekFrom::Start(pos))
Goto(inp, pos) == [inp EXCEPT !.pos = pos]

Yaz0ReaderRec(decompressed, transparent) ==
    [decompressed |-> decompressed, position |-> 0, transparent |-> transparent]

\* Yaz0Reader::new: the stream, the Yaz0Reader and the outcome
Yaz0New(inp) ==
    LET b      == inp.pos
        header == HeaderFromBinary(inp)
    IN  IF header.ok /\ IsValid(header)
        THEN LET d == Decompress(header.inp, header.decompressed_size) IN
             IF d.result = "Ok"
             THEN [reader |-> d.input,
                   yaz0reader |-> Yaz0ReaderRec(d.destination, FALSE),
                   outcome |-> "Ok"]
             ELSE [reader |-> d.input,
                   yaz0reader |-> Yaz0ReaderRec(<<>>, FALSE),
                   outcome |-> IF d.result = "panic" THEN "panic" ELSE "Err"]
        ELSE [reader |-> Goto(header.inp, b),
              yaz0reader |-> Yaz0ReaderRec(<<>>, TRUE),
              outcome |-> "Ok"]

\* is_yaz0: the closure returns at the first `?` that fails, before
\* goto(base); unwrap_or(false) turns that error into false
IsYaz0(inp) ==
    LET b      == inp.pos
        header == HeaderFromBinary(inp)
    IN  IF ~header.ok
        THEN [stream |-> header.inp, value |-> FALSE]
        ELSE [stream |-> Goto(header.inp, b), value |-> IsValid(header)]

\* results of read and seek: Ok(value) with the bytes put in the buffer, or
\* Err; RetPanic when the call did not return but panicked
RetOk(value, bytes) == [ok |-> TRUE, panic |-> FALSE, value |-> value, bytes |-> bytes]
RetErr == [ok |-> FALSE, panic |-> FALSE, value |-> 0, bytes |-> <<>>]
RetPanic == [ok |-> FALSE, panic |-> TRUE, value |-> 0, bytes |-> <<>>]

\* i64::MAX.  The integers of the model end at 2^31 - 1, which stands for it:
\* the positions and lengths of the model are far below either
I64Max == 2147483647

Min(a, b) == IF a < b THEN a ELSE b

\* Read::read on a Cursor with a buffer of n bytes
CursorRead(c, n) ==
    LET start == Min(c.pos, Len(c.data))
        k     == Min(n, Len(c.data) - start)
    IN  [stream |-> [c EXCEPT !.pos = @ + k],
         ret    |-> RetOk(k, SubSeq(c.data, start + 1, start + k))]

\* SeekFrom::Start(n), SeekFrom::End(n), SeekFrom::Current(n)
SeekFrom(whence, n) == [whence |-> whence, n |-> n]

\* Seek::seek on a Cursor
CursorSeek(c, pos) ==
    IF pos.whence = "Start"
    THEN [stream |-> [c EXCEPT !.pos = pos.n], ret |-> RetOk(pos.n, <<>>)]
    ELSE LET from == IF pos.whence = "End" THEN Len(c.data) ELSE c.pos IN
         IF from + pos.n < 0
         THEN [stream |-> c, ret |-> RetErr]
         ELSE [stream |-> [c EXCEPT !.pos = from + pos.n],
               ret    |-> RetOk(from + pos.n, <<>>)]

\* impl Read for Yaz0Reader, on the pair (underlying stream, Yaz0Reader)
Yaz0Read(c, y, n) ==
    IF y.transparent
    THEN LET r == CursorRead(c, n)
         IN  [stream |-> r.stream, yaz0reader |-> y, ret |-> r.ret]
    ELSE LET k == Min(n, Len(y.decompressed) - y.position)
         IN  [stream |-> c,
              yaz0reader |-> [y EXCEPT !.position = @ + k],
              ret |-> RetOk(k, SubSeq(y.decompressed, y.position + 1,
                                      y.position + k))]

\* impl Seek for Yaz0Reader.  `self.position as i64 + n` and
\* `self.decompressed.len() as i64 + n` are i64 additions: a sum that passes
\* i64::MAX panics in a build with overflow checks (`checks`) and wraps to a
\* negative number in a build without them
Yaz0Seek(c, y, pos, checks) ==
    IF y.transparent
    THEN LET r == CursorSeek(c, pos)
         IN  [stream |-> r.stream, yaz0reader |-> y, ret |-> r.ret]
    ELSE LET from == IF pos.whence = "Current" THEN y.position
                     ELSE Len(y.decompressed)
             overflow == pos.whence # "Start" /\ pos.n > 0 /\ from > I64Max - pos.n
             absolute == IF pos.whence = "Start" THEN pos.n
                         ELSE IF overflow THEN from - I64Max + (pos.n - I64Max) - 2
                         ELSE from + pos.n
         IN  IF overflow /\ checks
             THEN [stream |-> c, yaz0reader |-> y, ret |-> RetPanic]
             ELSE IF pos.whence # "Start" /\ absolute < 0
             THEN [stream |-> c, yaz0reader |-> y, ret |-> RetErr]
             ELSE LET position == IF absolute > Len(y.decompressed)
                                  THEN Len(y.decompressed) ELSE absolute
                  IN  [stream |-> c,
                       yaz0reader |-> [y EXCEPT !.position = position],
                       ret |-> RetOk(position, <<>>)]

Streams ==
    LET
        \* the streams Yaz0Reader::new is given: `pad` bytes that were read before,
        \* then the first hlen bytes of a 16-byte header and, behind a whole header,
        \* a payload
        HeaderBytes(magic, size) ==
            magic \o <<0, 0, 0, size>> \o <<0, 0, 0, 0, 0, 0, 0, 0>>

        Magics == { <<89, 97, 122, 48>>, <<84, 101, 115, 116>> }

        HeaderSizes == {0, 1, 3, 4}

        StreamPayloads == UNION { [1..n -> {0, 16, 128}] : n \in 0..MaxStreamPayload }

        Pads == { <<>>, <<7>> }
    IN
        { Cursor(pad \o HeaderBytes(m, sz) \o pl, Len(pad)) :
            pad \in Pads, m \in Magics, sz \in HeaderSizes, pl \in StreamPayloads }
        \cup
        { Cursor(pad \o SubSeq(HeaderBytes(m, 4), 1, hlen), Len(pad)) :
            pad \in Pads, m \in Magics, hlen \in 0..15 }

(***************************************************************************)
(* GCM: Fst entries and the FileIterator                                   *)
(***************************************************************************)
\* entries of an Fst besides Root (the root is always one more)
MaxEntries == 3

\* Entry::Root, Entry::File, Entry::Directory
Root == [type |-> "Root"]

File(name, index, offset, size) ==
    [type |-> "File", name |-> name, index |-> index, offset |-> offset,
     size |-> size]

\* mutant: the children of a directory are looked for at its end index
Directory_beginAtEnd(name, parent, begin, end) ==
    [type |-> "Directory", name |-> name, parent |-> parent, begin |-> end,
     end |-> end]

Directory(name, parent, begin, end) ==
    [type |-> "Directory", name |-> name, parent |-> parent, begin |-> begin,
     end |-> end]

FstEntries ==
    LET
        \* names of the string table: non-empty relative names of one component
        FileNames == {"a", "b"}

        DirectoryNames == {"d", "e"}

        \* the end indices a raw directory record carries: any u32, here up to one
        \* past the entry count of the longest Fst
        EndIndices == 0..(MaxEntries + 2)

        \* the entry Fst::deserialize builds at index i > 0: a File carries its own
        \* index, a Directory begins at i + 1 and ends where the raw record says
        EntriesAt(i) ==
            { File(n, i, 0, 0) : n \in FileNames } \cup
            { Directory(n, 0, i + 1, e) : n \in DirectoryNames, e \in EndIndices }

        \* the entry lists Fst::deserialize returns with n entries behind the Root
        RECURSIVE EntryLists(_)
        EntryLists(n) ==
            IF n = 0 THEN { <<Root>> }
            ELSE { Append(t, e) : t \in EntryLists(n - 1), e \in EntriesAt(n) }
    IN
        UNION { EntryLists(n) : n \in 0..MaxEntries }

PathPop(path) ==
    IF path = <<>> THEN path ELSE SubSeq(path, 1, Len(path) - 1)

\* mutant: the walk starts behind the root
Files_behindRoot ==
    [index |-> 1, last_index_of_directory |-> <<>>, path |-> <<>>]

\* Fst::files: a FileIterator at index 0 with an empty end stack and path
Files ==
    [index |-> 0, last_index_of_directory |-> <<>>, path |-> <<>>]

\* mutant: at most one directory is left per call
LeaveDirectories_once(s) ==
    IF s.last_index_of_directory # <<>>
       /\ s.last_index_of_directory[Len(s.last_index_of_directory)] = s.index
    THEN [s EXCEPT !.last_index_of_directory = SubSeq(@, 1, Len(@) - 1),
                   !.path = PathPop(@)]
    ELSE s

\* the while loop of next(): as long as the top of the end stack is the
\* current index, pop it and pop a path component
RECURSIVE LeaveDirectories(_)
LeaveDirectories(s) ==
    IF s.last_index_of_directory # <<>>
       /\ s.last_index_of_directory[Len(s.last_index_of_directory)] = s.index
    THEN LeaveDirectories(
             [s EXCEPT !.last_index_of_directory = SubSeq(@, 1, Len(@) - 1),
                       !.path = PathPop(@)])
    ELSE s

\* an item of the iterator: (PathBuf, Entry)
Item(path, entry) == [path |-> path, entry |-> entry]

\* FileIterator::next: the iterator afterwards and the returned Option
FileIteratorNext(es, s) ==
    LET
        \* PathBuf::push and PathBuf::join with such a name add one component;
        \* PathBuf::pop removes the last component, if there is one
        PathPush(path, name) == Append(path, name)

        PathJoin(path, name) == Append(path, name)
    IN
        LET s1 == LeaveDirectories(s) IN
        IF ~(s1.index < Len(es)) THEN [st |-> s1, result |-> None]
        ELSE LET entry == es[s1.index + 1]
                 s2    == [s1 EXCEPT !.index = @ + 1]
             IN  IF entry.type = "File"
                 THEN [st |-> s2,
                       result |-> Some(Item(PathJoin(s2.path, entry.name), entry))]
                 ELSE IF entry.type = "Directory"
                 THEN LET s3 == [index |-> entry.begin,
                                 last_index_of_directory |->
                                     Append(s2.last_index_of_directory, entry.end),
                                 path |-> PathPush(s2.path, entry.name)]
                      IN  [st |-> s3, result |-> Some(Item(s3.path, entry))]
                 ELSE [st |-> s2, result |-> Some(Item(s2.path, entry))]

(***************************************************************************)
(* GCM: Gcm::from_binary up to the Apploader                               *)
(***************************************************************************)
\* a u32 as two 16-bit limbs, hi * 2^16 + lo, so that 32-bit wrap-around is
\* kept; stream lengths and positions stay below 2^31 and are plain numbers
Limb == 65536

U32(hi, lo) == [hi |-> hi, lo |-> lo]

\* u32 + u32 as the machine computes it, and whether the sum left 32 bits
WrappingAdd(a, b) ==
    LET lo == a.lo + b.lo
        hi == a.hi + b.hi + (lo \div Limb)
    IN  [value |-> U32(hi % Limb, lo % Limb), overflow |-> hi >= Limb]

\* a u32 or usize used as a length on a stream shorter than 2^31 bytes:
\* TooLong stands for every length of 2^31 and more
TooLong == 2147483647

AsLength(a) == IF a.hi >= Limb \div 2 THEN TooLong ELSE a.hi * Limb + a.lo

\* the bytes of the image that decide how parsing goes: its length, the
\* Boot magic and console byte, the Apploader size fields, and whether the
\* executable and the FST behind the Boot offsets parse
GcmImage(len, magic, console, size, trailer_size, rest) ==
    [len |-> len, magic |-> magic, console |-> console, size |-> size,
     trailer_size |-> trailer_size, rest |-> rest]

\* the stream: a Cursor over the image, of which the model keeps the length
GcmStream(len, pos) == [len |-> len, pos |-> pos]

\* read_into_tracked of n bytes: Ok and n bytes further, or ReadFailed with
\* the Cursor at the end of the data
GcmReadExact(s, n) ==
    IF n # TooLong /\ s.pos + n <= s.len
    THEN [ok |-> TRUE, stream |-> [s EXCEPT !.pos = @ + n]]
    ELSE [ok |-> FALSE, stream |-> [s EXCEPT !.pos = IF @ > s.len THEN @ ELSE s.len]]

\* the fields of one header read after another, each with `?`
RECURSIVE GcmReadFields(_, _)
GcmReadFields(s, sizes) ==
    IF sizes = <<>> THEN [ok |-> TRUE, stream |-> s]
    ELSE LET r == GcmReadExact(s, Head(sizes)) IN
         IF r.ok THEN GcmReadFields(r.stream, Tail(sizes)) ELSE r

BOOT_MAGIC == "C2339F3D"

GAMECUBE == 71

\* Boot::from_binary: the stream afterwards and Ok or the error
BootFromBinary(s, image) ==
    LET
        \* byte sizes of the fields Boot::from_binary reads, 0x440 in all
        BootFields ==
            << 1, 2, 1, 2, 1, 1, 1, 1, 18, 4, 992, 4, 4, 24, 4, 4, 4, 4, 4, 4, 4, 4 >>
    IN
        LET r == GcmReadFields(s, BootFields) IN
        [stream |-> r.stream,
         result |-> IF ~r.ok THEN "ReadFailed"
                    ELSE IF image.magic # BOOT_MAGIC THEN "InvalidHeader"
                    ELSE IF image.console # GAMECUBE THEN "InvalidHeader"
                    ELSE "Ok"]

\* Bi2::from_binary: 0x2000 / 4 big-endian words in one read
Bi2FromBinary(s) ==
    LET r == GcmReadExact(s, 8192) IN
    [stream |-> r.stream, result |-> IF r.ok THEN "Ok" ELSE "ReadFailed"]

\* Apploader::from_binary; `size + trailer_size` is a u32 addition, which
\* panics on overflow when overflow checks are compiled in and wraps when
\* they are not
ApploaderFromBinary(s, image, overflow_checks) ==
    LET
        \* byte sizes of date, entry_point, size, trailer_size and unknown
        ApploaderFields == << 16, 4, 4, 4, 4 >>
    IN
        LET h   == GcmReadFields(s, ApploaderFields)
            sum == WrappingAdd(image.size, image.trailer_size)
            d   == GcmReadExact(h.stream, AsLength(sum.value))
        IN  IF ~h.ok THEN [stream |-> h.stream, result |-> "ReadFailed", data_len |-> 0]
            ELSE IF sum.overflow /\ overflow_checks
            THEN [stream |-> h.stream, result |-> "panic", data_len |-> 0]
            ELSE IF ~d.ok THEN [stream |-> d.stream, result |-> "ReadFailed", data_len |-> 0]
            ELSE [stream |-> d.stream, result |-> "Ok",
                  data_len |-> AsLength(sum.value)]

GcmImages ==
    LET
        \* the images and start positions of the model
        GcmLengths == {0, 256, 1088, 9280, 9300, 9312, 9328, 9344}

        ApploaderSizes == { U32(0, 0), U32(0, 1), U32(0, 16), U32(65535, 65535) }
    IN
        { GcmImage(len, magic, console, size, trailer_size, rest) :
            len \in GcmLengths, magic \in {BOOT_MAGIC, "00000000"},
            console \in {GAMECUBE, 0}, size \in ApploaderSizes,
            trailer_size \in { U32(0, 0), U32(0, 1) }, rest \in {"Ok", "Err"} }

\* the state of one call of Gcm::from_binary
GcmCall(stage, res, position, parsed, data_len) ==
    [stage |-> stage, result |-> res, position |-> position,
     parsed |-> parsed, data_len |-> data_len]

(***************************************************************************)
(* CISO: Header::from_binary, CisoReader and its block iterator            *)
(***************************************************************************)
\* bytes at the front of the 0x7FF8-byte block map that may be non-zero;
\* the rest of the map is zero
MaxMapBytes == 3

\* bytes stored behind the 0x8000-byte header
MaxStored == 4

\* Parser::bu32 as limbs: the big-endian value of four bytes
Bu32Of(bytes) ==
    U32(bytes[1] * 256 + bytes[2], bytes[3] * 256 + bytes[4])

\* block_size == 0 || block_size > 0x8000000
BlockSizeInvalid(v) ==
    \/ v.hi = 0 /\ v.lo = 0
    \/ v.hi > 2048
    \/ v.hi = 2048 /\ v.lo > 0

\* a CISO file: how many bytes of the 0x8000-byte header the stream holds,
\* the magic and block size bytes, the front of the block map, and the
\* bytes behind the header
CisoFile(header_len, magic, block_size, map, stored) ==
    [header_len |-> header_len, magic |-> magic, block_size |-> block_size,
     map |-> map, stored |-> stored]

\* Header::from_binary
CisoHeaderFromBinary(file) ==
    LET
        \* static MAGIC: u32 = 0x4F534943
        CISO_MAGIC == U32(20307, 18755)

        \* `*x.1 == 1`: a block has data when its map byte is 1
        HasData(x) == x = 1

        \* block_total: the largest i + 1 with map byte i not zero, None without one
        BlockTotal(map) ==
            LET used == { i \in 1..Len(map) : map[i] # 0 } IN
            IF used = {} THEN None
            ELSE Some(CHOOSE i \in used : \A j \in used : j <= i)

        \* blocks: (offset, has_data) per block, the offset of a block with data
        \* being block_size times the blocks with data before it
        BlocksOf(map, total, block_size) ==
            [i \in 1..total |->
                [offset   |-> IF HasData(map[i])
                              THEN block_size * Cardinality({ j \in 1..(i - 1) : HasData(map[j]) })
                              ELSE 0,
                 has_data |-> HasData(map[i])]]
    IN
        LET magic == Bu32Of(file.magic)
            bs    == Bu32Of(file.block_size)
            total == BlockTotal(file.map)
            Err(e) == [result |-> e, block_size |-> 0, blocks |-> <<>>]
        IN  IF file.header_len < 8 THEN Err("ReadFailed")
            ELSE IF magic # CISO_MAGIC THEN Err("InvalidMagic")
            ELSE IF BlockSizeInvalid(bs) THEN Err("InvalidRange")
            ELSE IF file.header_len < 32768 THEN Err("ReadFailed")
            ELSE IF total = None THEN Err("InvalidHeader")
            ELSE [result |-> "Ok", block_size |-> AsLength(bs),
                  blocks |-> BlocksOf(file.map, total[1], AsLength(bs))]

\* CisoReader::read_block: the data of the block at index, 0-based
ReadBlock(file, header, index) ==
    LET block == header.blocks[index + 1] IN
    IF ~block.has_data THEN [ok |-> TRUE, data |-> Zeros(header.block_size)]
    ELSE IF block.offset + header.block_size <= Len(file.stored)
    THEN [ok |-> TRUE,
          data |-> SubSeq(file.stored, block.offset + 1,
                          block.offset + header.block_size)]
    ELSE [ok |-> FALSE, data |-> <<>>]

CisoFiles ==
    LET
        \* the files of the model
        CisoMagics == { <<67, 73, 83, 79>>, <<79, 83, 73, 67>>, <<0, 0, 0, 0>> }

        CisoBlockSizes ==
            { <<0, 0, 0, 0>>, <<0, 0, 0, 1>>, <<0, 0, 0, 2>>, <<255, 255, 255, 255>> }

        CisoMaps == [1..MaxMapBytes -> {0, 1, 2}]

        StoredBytes(n) == [i \in 1..n |-> 10 + i]
    IN
        { CisoFile(hl, m, bs, map, StoredBytes(n)) :
            hl \in {4, 8, 32768}, m \in CisoMagics, bs \in CisoBlockSizes,
            map \in CisoMaps, n \in 0..MaxStored }

\* the CisoReader and the BlockIterator of decompress
CisoReaderRec(res, block_size, blocks, index) ==
    [result |-> res, block_size |-> block_size, blocks |-> blocks,
     index |-> index]

(***************************************************************************)
(* DOL: from_bytes                                                         *)
(***************************************************************************)
\* u32 values are limbs as above; a number below 2^31 as a u32
ToU32(n) == U32(n \div Limb, n % Limb)

IsZero(a) == a.hi = 0 /\ a.lo = 0

Leq(a, b) == a.hi < b.hi \/ (a.hi = b.hi /\ a.lo <= b.lo)

\* read_bu32!(bytes, offset): the big-endian u32 at a 0-based offset
ReadBu32At(bytes, offset) == Bu32Of(SubSeq(bytes, offset + 1, offset + 4))

\* u32::to_be_bytes
BeBytes(a) == << a.hi \div 256, a.hi % 256, a.lo \div 256, a.lo % 256 >>

\* take_last_n
TakeLastN(data, n) ==
    IF Len(data) < n THEN data ELSE SubSeq(data, Len(data) - n + 1, Len(data))

\* the Header read from the first 0x100 bytes
DolHeader(bytes) ==
    LET
        \* read_bu32_array!(bytes, offset, len)
        ReadBu32ArrayAt(data, offset, len) ==
            [i \in 1..len |-> ReadBu32At(data, offset + 4 * (i - 1))]
    IN
        [text_offset  |-> ReadBu32ArrayAt(bytes, 0, 7),
         data_offset  |-> ReadBu32ArrayAt(bytes, 28, 11),
         text_address |-> ReadBu32ArrayAt(bytes, 72, 7),
         data_address |-> ReadBu32ArrayAt(bytes, 100, 11),
         text_size    |-> ReadBu32ArrayAt(bytes, 144, 7),
         data_size    |-> ReadBu32ArrayAt(bytes, 172, 11),
         bss_address  |-> ReadBu32At(bytes, 216),
         bss_size     |-> ReadBu32At(bytes, 220),
         entrypoint   |-> ReadBu32At(bytes, 224)]

\* one pass of a validation loop over the slot at 0-based index i
SlotCheck(offset, size, len) ==
    LET
        \* checked_add: None stands for Err(IntegerOverflow)
        CheckedAdd(a, b) ==
            LET s == WrappingAdd(a, b) IN IF s.overflow THEN None ELSE Some(s.value)
    IN
        IF IsZero(offset) \/ IsZero(size) THEN "Ok"
        ELSE LET end == CheckedAdd(offset, size) IN
             IF end = None THEN "IntegerOverflow"
             ELSE IF Leq(ToU32(256), offset) /\ Leq(end[1], ToU32(len)) THEN "Ok"
             ELSE "OutOfBounds"

\* a validation loop: the first slot that fails, with the error it gives
Validate(offsets, sizes, len, error) ==
    LET bad == { i \in 1..Len(offsets) : SlotCheck(offsets[i], sizes[i], len) # "Ok" } IN
    IF bad = {} THEN [result |-> "Ok", section |-> 0]
    ELSE LET i == CHOOSE k \in bad : \A j \in bad : k <= j IN
         [result |-> IF SlotCheck(offsets[i], sizes[i], len) = "OutOfBounds"
                     THEN error ELSE "IntegerOverflow",
          section |-> i - 1]

EmptySlice == [offset |-> 0, bytes |-> <<>>]

Section(kind, name, address, size, aligned_size, data) ==
    [kind |-> kind, name |-> name, address |-> address, size |-> size,
     aligned_size |-> aligned_size, data |-> data]

\* &bytes[offset..offset + size] is in range
SliceInRange(offset, size, len) ==
    AsLength(WrappingAdd(offset, size).value) <= len

\* the Section of one slot: aligned_size is the size of the header
SlotSection(kind, names, bytes, offsets, addresses, sizes, i) ==
    LET
        \* a slice of the input: where it starts in the input and the bytes it holds
        Slice(data, offset, size) ==
            [offset |-> offset, bytes |-> SubSeq(data, offset + 1, offset + size)]
    IN
        Section(kind, names[i], addresses[i], sizes[i], sizes[i],
                Slice(bytes, AsLength(offsets[i]), AsLength(sizes[i])))

\* RomCopyInfo::from_bytes and BssInitInfo::from_bytes on a window
RomCopyInfo(window) ==
    [rom_address |-> ReadBu32At(window, 0), ram_address |-> ReadBu32At(window, 4),
     size |-> ReadBu32At(window, 8)]

BssInitInfo(window) ==
    [ram_address |-> ReadBu32At(window, 0), size |-> ReadBu32At(window, 4)]

\* windows(w) of a slice
Windows(data, w) ==
    IF Len(data) < w THEN <<>>
    ELSE [k \in 1..(Len(data) - w + 1) |-> SubSeq(data, k, k + w - 1)]

\* skip_while(~found).step_by(step).take_while(~stop) of a sequence, found
\* and stop being the sets of the indices whose record is found, is a stop
SkipStepTake(records, step, found, stop) ==
    IF found = {} THEN <<>>
    ELSE LET first == CHOOSE k \in found : \A j \in found : k <= j
             count == (Len(records) - first) \div step + 1
             At(n) == first + (n - 1) * step
             stops == { n \in 1..count : At(n) \in stop }
             taken == IF stops = {} THEN count
                      ELSE (CHOOSE n \in stops : \A j \in stops : n <= j) - 1
         IN  [n \in 1..taken |-> records[At(n)]]

\* rom_copy_info_search: always Some(..)
RomCopyInfoSearch(data, address) ==
    LET windows == Windows(TakeLastN(data, 512), 12)
        records == [k \in DOMAIN windows |-> RomCopyInfo(windows[k])]
        found   == { k \in DOMAIN records : /\ records[k].rom_address = address
                                            /\ records[k].ram_address = address }
        stop    == { k \in DOMAIN records : IsZero(records[k].rom_address) }
    IN  Some(SkipStepTake(records, 12, found, stop))

\* bss_init_info_search: always Some(..)
BssInitInfoSearch(data, address) ==
    LET windows == Windows(TakeLastN(data, 512), 8)
        records == [k \in DOMAIN windows |-> BssInitInfo(windows[k])]
        found   == { k \in DOMAIN records : records[k].ram_address = address }
        stop    == { k \in DOMAIN records : IsZero(records[k].ram_address) }
    IN  Some(SkipStepTake(records, 8, found, stop))

\* the result of from_bytes: Ok with the Dol, an error, or a panic
DolResult(res, section, dol) == [result |-> res, section |-> section, dol |-> dol]

NoDol == [rom_copy_info |-> None, bss_init_info |-> None, sections |-> <<>>]

\* from_bytes
FromBytes(bytes) ==
    LET
        \* align_next(size, 32): wrapping_add(31) & !31
        AlignNext(a) ==
            LET s == WrappingAdd(a, U32(0, 31)).value IN U32(s.hi, s.lo - (s.lo % 32))

        \* section_name for text and data; for bss see BssName
        TextNames == << ".init", ".text", ".text.2", ".text.3", ".text.4", ".text.5", ".text.6" >>

        DataNames ==
            << "extab_", "extabindex_", ".ctors", ".dtors", ".rodata", ".data",
               ".sdata", ".sdata2", ".data8", ".data9", ".data10" >>

        BssNames == << ".bss", ".sbss", ".sbss2" >>
    IN
        IF ~(Len(bytes) >= 256) THEN DolResult("InvalidHeaderSize", 0, NoDol)
        ELSE
        LET header == DolHeader(bytes)
            len    == Len(bytes)
            text   == Validate(header.text_offset, header.text_size, len,
                               "TextSectionOutOfBounds")
            data   == Validate(header.data_offset, header.data_size, len,
                               "DataSectionOutOfBounds")
        IN  IF text.result # "Ok" THEN DolResult(text.result, text.section, NoDol)
            ELSE IF data.result # "Ok" THEN DolResult(data.result, data.section, NoDol)
            ELSE IF \/ \E i \in 1..7 : ~SliceInRange(header.text_offset[i],
                                                     header.text_size[i], len)
                    \/ \E i \in 1..11 : ~SliceInRange(header.data_offset[i],
                                                      header.data_size[i], len)
            THEN DolResult("panic", 0, NoDol)
            ELSE
            LET text_sections ==
                    [i \in 1..7 |-> SlotSection("Text", TextNames, bytes,
                                        header.text_offset, header.text_address,
                                        header.text_size, i)]
                data_sections ==
                    [i \in 1..11 |-> SlotSection("Data", DataNames, bytes,
                                        header.data_offset, header.data_address,
                                        header.data_size, i)]
                NonEmpty(section) == ~IsZero(section.size)
                sections == SelectSeq(text_sections \o data_sections, NonEmpty)
                init == IF sections # <<>> /\ sections[1].name = ".init"
                        THEN Some(sections[1]) ELSE None
                rom_copy_info ==
                    IF init = None THEN None
                    ELSE RomCopyInfoSearch(init[1].data.bytes, init[1].address)
                bss_init_info ==
                    IF init = None THEN None
                    ELSE BssInitInfoSearch(init[1].data.bytes, header.bss_address)
                RomSize(section) ==
                    IF rom_copy_info = None THEN section.size
                    ELSE LET hits == { k \in 1..Len(rom_copy_info[1]) :
                                         rom_copy_info[1][k].rom_address = section.address }
                         IN  IF hits = {} THEN section.size
                             ELSE rom_copy_info[1][CHOOSE k \in hits :
                                                     \A j \in hits : k <= j].size
                resized == [k \in 1..Len(sections) |->
                               [sections[k] EXCEPT !.size = RomSize(sections[k])]]
                bss_sections ==
                    IF bss_init_info # None
                    THEN [k \in 1..Len(bss_init_info[1]) |->
                            Section("Bss", BssNames[k], bss_init_info[1][k].ram_address,
                                    bss_init_info[1][k].size,
                                    AlignNext(bss_init_info[1][k].size), EmptySlice)]
                    ELSE << Section("Bss", BssNames[1], header.bss_address,
                                    header.bss_size, header.bss_size, EmptySlice) >>
            IN  IF bss_init_info # None /\ Len(bss_init_info[1]) > 3
                THEN DolResult("panic", 0, NoDol)
                ELSE DolResult("Ok", 0,
                               [rom_copy_info |-> rom_copy_info,
                                bss_init_info |-> bss_init_info,
                                sections |-> resized \o bss_sections])

\* the .dol files of the model.  A slot is (offset, address, size); the
\* file has the .init slot text[0], the slots text[1] and data[0], and
\* zeroes in all other slots
Slot(offset, address, size) == [offset |-> offset, address |-> address, size |-> size]

NoSlot == Slot(U32(0, 0), U32(0, 0), U32(0, 0))

\* load addresses: .init at 0x80003100, .text, a data section, the bss
INIT_ADDRESS == U32(32768, 12544)

BSS_ADDRESS == U32(32896, 0)

DolFiles ==
    LET
        TEXT_ADDRESS == U32(32768, 22208)

        DATA_ADDRESS == U32(32832, 0)

        \* the header: 18 offsets, 18 addresses, 18 sizes, bss address and size,
        \* the entry point, and zeroes up to 0x100
        DolHeaderBytes(text0, text1, data0, bss_address, bss_size) ==
            LET Field(F(_)) ==
                    F(text0) \o F(text1) \o Zeros(20) \o F(data0) \o Zeros(40)
                Offset(x)  == BeBytes(x.offset)
                Address(x) == BeBytes(x.address)
                Size(x)    == BeBytes(x.size)
            IN  Field(Offset) \o Field(Address) \o Field(Size)
                \o BeBytes(bss_address) \o BeBytes(bss_size) \o BeBytes(INIT_ADDRESS)
                \o Zeros(28)

        \* data of an .init section: zeroes; a __rom_copy_info entry for .init of
        \* size 28 and a __bss_init_info entry of size 5, each with its terminator;
        \* four __bss_init_info entries and a terminator
        InitDatas ==
            { Zeros(32),
              Zeros(33),
              BeBytes(INIT_ADDRESS) \o BeBytes(INIT_ADDRESS) \o BeBytes(U32(0, 28))
                  \o Zeros(12) \o BeBytes(BSS_ADDRESS) \o BeBytes(U32(0, 5)) \o Zeros(8),
              BeBytes(BSS_ADDRESS) \o BeBytes(U32(0, 5)) \o BeBytes(BSS_ADDRESS)
                  \o BeBytes(U32(0, 5)) \o BeBytes(BSS_ADDRESS) \o BeBytes(U32(0, 5))
                  \o BeBytes(BSS_ADDRESS) \o BeBytes(U32(0, 5)) \o Zeros(8) }

        \* the slots text[1] may hold when `next` is the offset behind .init
        Text1Slots(next) ==
            { NoSlot,
              Slot(U32(0, 0), TEXT_ADDRESS, U32(0, 32)),
              Slot(U32(0, 128), TEXT_ADDRESS, U32(0, 16)),
              Slot(ToU32(next), TEXT_ADDRESS, U32(0, 32)),
              Slot(ToU32(next), TEXT_ADDRESS, U32(0, 33)),
              Slot(ToU32(next), TEXT_ADDRESS, U32(65535, 65535)),
              Slot(U32(0, 1024), TEXT_ADDRESS, U32(0, 0)) }

        Data0Slots(next) ==
            { NoSlot,
              Slot(ToU32(next), DATA_ADDRESS, U32(0, 32)),
              Slot(ToU32(next), DATA_ADDRESS, U32(0, 64)) }
    IN
        { Zeros(16) } \cup
        UNION { { DolHeaderBytes(text0, text1, data0, bss_address, bss_size)
                      \o init \o Zeros(32) :
                    text0 \in { NoSlot, Slot(U32(0, 256), INIT_ADDRESS, ToU32(Len(init))) },
                    text1 \in Text1Slots(256 + Len(init)),
                    data0 \in Data0Slots(256 + Len(init)),
                    bss_address \in { U32(0, 0), BSS_ADDRESS },
                    bss_size \in { U32(0, 0), U32(0, 33) } } :
                init \in InitDatas }

(***************************************************************************)
(* Shift JIS 2004: the generated tables and Decoder::next                  *)
(***************************************************************************)
\* bound on the number of bytes given to the decoder
MaxSjisLen == 3

\* longest name table behind the records of an Fst
MaxNames == 3

\* Rows of the mapping the tables are generated from, one per lead/trail
\* pair: the pairs 0x83 0x5B, 0x83 0x5F (one scalar each) and 0x86 0x63 (two
\* scalars) that tests/shift_jis_2004.rs decodes.  Under lead 0x83 the trails
\* 0x5C..0x5E have no row, so the generated S table holds 0 for them.
\* version is the Version of the row (0 = SinceBeginningOfTime): the pairs
\* under 0x83 are decoded by tests/shift_jis_1997.rs as well, the two-scalar
\* pair came with JIS X 0213.
SjisData ==
    { [byte0 |-> 131, byte1 |-> 91, version |-> 0, value |-> <<12476>>],
      [byte0 |-> 131, byte1 |-> 95, version |-> 0, value |-> <<12480>>],
      [byte0 |-> 134, byte1 |-> 99, version |-> 2000, value |-> <<230, 768>>] }

\* (0x80..0xA0).chain(0xE0..0xFF)
LookupByte == [i \in 1..63 |-> IF i <= 32 THEN 127 + i ELSE 191 + i]

\* generate_table for a version after the first k lookup bytes: the T, S and
\* D tables
RECURSIVE GenerateTable(_, _)
GenerateTable(version, k) ==
    LET
        \* An entry of the S table, a u32 split as (value & 0x8000_0000 != 0,
        \* value & 0x7fff_ffff).
        SingleEntry(high, low) == [high |-> high, low |-> low]
    IN
        IF k = 0
        THEN [table_lookup  |-> [b \in 0..255 |-> [first |-> 0, last |-> 0, offset |-> 0]],
              single_lookup |-> <<>>,
              double_lookup |-> <<>>]
        ELSE LET g      == GenerateTable(version, k - 1)
                 byte0  == LookupByte[k]
                 rows   == {x \in SjisData : x.version <= version /\ x.byte0 = byte0}
                 u2     == {x \in rows : Len(x.value) = 2}
                 trails == {x.byte1 : x \in rows}
             IN  IF trails = {} THEN g
                 ELSE LET lo     == CHOOSE t \in trails : \A u \in trails : t <= u
                          hi     == CHOOSE t \in trails : \A u \in trails : u <= t
                          offset == Len(g.single_lookup)
                          \* position of a two-scalar row in the order it is pushed
                          Rank(x) == Cardinality({y \in u2 : y.byte1 < x.byte1})
                          Entry(t) ==
                              IF t \notin trails THEN SingleEntry(FALSE, 0)
                              ELSE LET x == CHOOSE y \in rows : y.byte1 = t
                                   IN  IF Len(x.value) = 1
                                       THEN SingleEntry(FALSE, x.value[1])
                                       ELSE SingleEntry(TRUE, Len(g.double_lookup) + Rank(x))
                      IN  [table_lookup  |-> [g.table_lookup EXCEPT ![byte0] =
                                                 [first |-> lo, last |-> hi, offset |-> offset]],
                           single_lookup |-> g.single_lookup \o
                                             [i \in 1..(hi - lo + 1) |-> Entry(lo + i - 1)],
                           double_lookup |-> g.double_lookup \o
                                             [i \in 1..Cardinality(u2) |->
                                                 LET x == CHOOSE y \in u2 : Rank(y) = i - 1
                                                 IN  <<x.value[1], x.value[2]>>]]

\* the generated tables SJIS_2004_UTF8_T, _S and _D
SJIS_2004_UTF8 == GenerateTable(2004, Len(LookupByte))

\* the generated tables SJIS_1997_UTF8_T and _S
SJIS_1997_UTF8 == GenerateTable(1997, Len(LookupByte))

\* jis_x_0201::Decoder::decode_byte
JisX0201DecodeByte(byte) ==
    IF byte = 92 THEN Some(165)
    ELSE IF byte = 126 THEN Some(8254)
    ELSE IF byte \in 0..127 THEN Some(byte)
    ELSE IF byte \in 161..223 THEN Some(65377 + (byte - 161))
    ELSE None

\* Decoder::decode_next on a byte iterator over bytes that has consumed pos
\* of them
DecodeNext(bytes, pos) ==
    LET
        \* enum Next, and the errors decode_next returns
        EndOfInput == [kind |-> "EndOfInput", first |-> 0, second |-> 0]

        One(c) == [kind |-> "One", first |-> c, second |-> 0]

        Two(c1, c2) == [kind |-> "Two", first |-> c1, second |-> c2]

        InvalidByte(byte) == [kind |-> "InvalidByte", first |-> byte, second |-> 0]

        UnexpectedEndOfData == [kind |-> "UnexpectedEndOfData", first |-> 0, second |-> 0]
    IN
        IF pos >= Len(bytes) THEN [iter |-> pos, next |-> EndOfInput]
        ELSE LET byte == bytes[pos + 1]
                 c    == JisX0201DecodeByte(byte)
             IN  IF c # None THEN [iter |-> pos + 1, next |-> One(c[1])]
                 ELSE IF byte \in 129..159 \/ byte \in 224..252
                 THEN IF pos + 1 >= Len(bytes)
                      THEN [iter |-> pos + 1, next |-> UnexpectedEndOfData]
                      ELSE LET trail == bytes[pos + 2]
                               t     == SJIS_2004_UTF8.table_lookup[byte]
                           IN  IF ~(trail >= t.first /\ trail <= t.last)
                               THEN [iter |-> pos + 2, next |-> InvalidByte(trail)]
                               ELSE LET value == SJIS_2004_UTF8.single_lookup[t.offset + (trail - t.first) + 1]
                                    IN  IF ~value.high /\ value.low = 0
                                        THEN [iter |-> pos + 2, next |-> InvalidByte(trail)]
                                        ELSE IF value.high
                                        THEN LET pair == SJIS_2004_UTF8.double_lookup[value.low + 1]
                                             IN  [iter |-> pos + 2, next |-> Two(pair[1], pair[2])]
                                        ELSE [iter |-> pos + 2, next |-> One(value.low)]
                 ELSE [iter |-> pos + 1, next |-> InvalidByte(byte)]

\* Decoder::new
DecoderNew == [iter |-> 0, buffered |-> None]

\* Option<Result<char>>, the item of the decoder
SjisItem(kind, value) == [kind |-> kind, value |-> value]

DecoderNext_noBuffer(bytes, d) ==
    IF d.buffered # None
    THEN [decoder |-> [d EXCEPT !.buffered = None], item |-> SjisItem("Ok", d.buffered[1])]
    ELSE LET r == DecodeNext(bytes, d.iter)
             e == [d EXCEPT !.iter = r.iter]
         IN  CASE r.next.kind = "EndOfInput" ->
                    [decoder |-> e, item |-> SjisItem("None", 0)]
               [] r.next.kind \in {"One", "Two"} ->
                    [decoder |-> e, item |-> SjisItem("Ok", r.next.first)]
               [] OTHER ->
                    [decoder |-> e, item |-> SjisItem(r.next.kind, r.next.first)]

\* Decoder::next
DecoderNext(bytes, d) ==
    IF d.buffered # None
    THEN [decoder |-> [d EXCEPT !.buffered = None], item |-> SjisItem("Ok", d.buffered[1])]
    ELSE LET r == DecodeNext(bytes, d.iter)
             e == [d EXCEPT !.iter = r.iter]
         IN  CASE r.next.kind = "EndOfInput" ->
                    [decoder |-> e, item |-> SjisItem("None", 0)]
               [] r.next.kind = "One" ->
                    [decoder |-> e, item |-> SjisItem("Ok", r.next.first)]
               [] r.next.kind = "Two" ->
                    [decoder |-> [e EXCEPT !.buffered = Some(r.next.second)],
                     item |-> SjisItem("Ok", r.next.first)]
               [] OTHER ->
                    [decoder |-> e, item |-> SjisItem(r.next.kind, r.next.first)]

\* Iterator::next of the Decoder of a codec
CodecNext(codec, bytes, d) ==
    LET
        \* shift_jis_1997::Decoder::decode_next on a byte iterator over bytes that
        \* has consumed pos of them
        ShiftJis1997DecodeNext(data, pos, utf8) ==
            IF pos >= Len(data) THEN [iter |-> pos, item |-> SjisItem("None", 0)]
            ELSE LET lead == data[pos + 1]
                     c    == JisX0201DecodeByte(lead)
                 IN  IF c # None THEN [iter |-> pos + 1, item |-> SjisItem("Ok", c[1])]
                     ELSE IF lead \in 129..159 \/ lead \in 224..252
                     THEN IF pos + 1 >= Len(data)
                          THEN [iter |-> pos + 1, item |-> SjisItem("UnexpectedEndOfData", 0)]
                          ELSE LET trail == data[pos + 2]
                                   t     == utf8.table_lookup[lead]
                               IN  IF ~(trail >= t.first /\ trail <= t.last)
                                   THEN [iter |-> pos + 2, item |-> SjisItem("InvalidByte", trail)]
                                   ELSE LET value == utf8.single_lookup[t.offset + (trail - t.first) + 1]
                                        IN  IF ~value.high /\ value.low = 0
                                            THEN [iter |-> pos + 2, item |-> SjisItem("InvalidByte", trail)]
                                            ELSE IF value.high
                                            THEN [iter |-> pos + 2, item |-> SjisItem("InvalidByte", trail)]
                                            ELSE [iter |-> pos + 2, item |-> SjisItem("Ok", value.low)]
                     ELSE [iter |-> pos + 1, item |-> SjisItem("InvalidByte", lead)]
    IN
        LET
            \* ascii::Decoder::decode_byte
            AsciiDecodeByte(byte) == IF byte \in 0..127 THEN Some(byte) ELSE None
        IN
            IF codec = "ShiftJis2004" THEN DecoderNext(bytes, d)
            ELSE IF codec = "ShiftJis1997"
            THEN LET r == ShiftJis1997DecodeNext(bytes, d.iter, SJIS_1997_UTF8)
                 IN  [decoder |-> [d EXCEPT !.iter = r.iter], item |-> r.item]
            ELSE IF d.iter >= Len(bytes) THEN [decoder |-> d, item |-> SjisItem("None", 0)]
            ELSE LET b == bytes[d.iter + 1]
                     c == IF codec = "Ascii" THEN AsciiDecodeByte(b) ELSE JisX0201DecodeByte(b)
                 IN  [decoder |-> [d EXCEPT !.iter = d.iter + 1],
                      item    |-> IF c # None THEN SjisItem("Ok", c[1])
                                  ELSE SjisItem("InvalidByte", b)]

\* Result<String>: Ok with the scalars of the string, or the error
StringResult(kind, string, byte) == [kind |-> kind, string |-> string, byte |-> byte]

\* collect::<Result<String>>() of the decoder d, behind the take_while of
\* `first` when until_nul: the scalars up to the end of the input or the
\* first NUL scalar, or the first error met before that
RECURSIVE Collect(_, _, _, _)
Collect(codec, bytes, d, until_nul) ==
    LET
        \* r is what next() returned
        Collected(r) ==
            IF r.item.kind = "None" THEN StringResult("Ok", <<>>, 0)
            ELSE IF r.item.kind # "Ok" THEN StringResult(r.item.kind, <<>>, r.item.value)
            ELSE IF until_nul /\ r.item.value = 0 THEN StringResult("Ok", <<>>, 0)
            ELSE LET rest == Collect(codec, bytes, r.decoder, until_nul)
                 IN  IF rest.kind = "Ok"
                     THEN StringResult("Ok", <<r.item.value>> \o rest.string, 0)
                     ELSE rest
    IN  Collected(CodecNext(codec, bytes, d))

\* Ascii::all, JisX0201::all, ShiftJis1997::all, ShiftJis2004::all
All(codec, bytes) == Collect(codec, bytes, DecoderNew, FALSE)

First_throughNul(codec, bytes) ==
    LET r == Collect(codec, bytes, DecoderNew, TRUE)
        a == Collect(codec, bytes, DecoderNew, FALSE)
    IN  IF r.kind = "Ok" /\ Len(r.string) < Len(a.string)
        THEN StringResult("Ok", Append(r.string, 0), 0)
        ELSE r

\* Ascii::first, JisX0201::first, ShiftJis1997::first, ShiftJis2004::first
First(codec, bytes) == Collect(codec, bytes, DecoderNew, TRUE)

SjisInputs ==
    LET
        \* the bytes given to the decoder: NUL, the trails 0x5B (mapped under 0x83),
        \* 0x5C (no row under 0x83) and 0x63 (mapped under 0x86), the byte 0x80
        \* (invalid as first byte) and the leads 0x83 and 0x86
        SjisBytes == {0, 91, 92, 99, 128, 131, 134}
    IN
        UNION { [1..n -> SjisBytes] : n \in 0..MaxSjisLen }

(***************************************************************************)
(* REL: Rel::from_binary                                                   *)
(***************************************************************************)

\* A stream position (u64) is kept in limbs like a u32, with a high limb
\* that may pass 2^16.  a + b, where no sum of the model leaves 64 bits.
Offset(a, b) ==
    LET lo == a.lo + b.lo
    IN  U32(a.hi + b.hi + lo \div Limb, lo % Limb)

\* The stream is a Cursor over the image: read_exact of the reads `widths`
\* one after the other from `at`.  0 when all of them are served, or else
\* the width of the first one the image is too short for
RECURSIVE FirstShort(_, _, _)
FirstShort(file, at, widths) ==
    IF widths = <<>> THEN 0
    ELSE LET end == Offset(at, U32(0, Head(widths)))
         IN  IF end.hi < file.len.hi \/ (end.hi = file.len.hi /\ end.lo <= file.len.lo)
             THEN FirstShort(file, end, Tail(widths))
             ELSE Head(widths)

\* the big endian u32 at `at`; the image is kept as its non-zero aligned
\* words, every other byte of it is 0
Bu32(file, at) == IF at \in DOMAIN file.words THEN file.words[at] ELSE U32(0, 0)

\* what from_binary and its helpers return: Ok with the value, the Err of a
\* ParseProblem or of a failed read of n bytes, or a panic
RelResult(kind, problem, n, value) ==
    [kind |-> kind, problem |-> problem, n |-> n, value |-> value]

RECURSIVE ParseSections(_, _, _, _, _)
ParseSections(file, origin, section_offset, section_count, sections) ==
    IF Len(sections) = section_count THEN RelResult("Ok", "", 0, sections)
    ELSE
    LET i == Len(sections)
        at == Offset(Offset(origin, section_offset), U32(0, i * 8))
        short == FirstShort(file, at, <<4, 4>>)
        offset_flags == Bu32(file, at)
        offset == U32(offset_flags.hi, offset_flags.lo - (offset_flags.lo % 4))
        flags == offset_flags.lo % 4
        size == Bu32(file, Offset(at, U32(0, 4)))
        section == [offset |-> offset, size |-> size,
                    executable |-> flags % 2 # 0, unknown |-> flags \div 2 # 0,
                    data |-> IF offset # U32(0, 0) THEN AsLength(size) ELSE 0]
    IN  IF short # 0 THEN RelResult("Err", "ReadFailed", short, <<>>)
        ELSE IF offset # U32(0, 0) /\ AsLength(size) > 33554432
        THEN RelResult("Err", "InvalidRange", 0, <<>>)
        ELSE IF offset # U32(0, 0)
                /\ FirstShort(file, Offset(origin, offset), <<AsLength(size)>>) # 0
        THEN RelResult("Err", "ReadFailed", AsLength(size), <<>>)
        ELSE ParseSections(file, origin, section_offset, section_count,
                            Append(sections, section))

KindOfByte_with9 ==
    [k \in {0, 1, 2, 3, 4, 5, 6, 7, 9, 10, 11, 201, 202, 203, 204} |->
        CASE k = 203 -> "DolphinEnd" [] OTHER -> "None"]

\* the kind bytes parse_imports knows
KindOfByte ==
    [k \in {0, 1, 2, 3, 4, 5, 6, 7, 10, 11, 201, 202, 203, 204} |->
        CASE k = 0 -> "None" [] k = 1 -> "Addr32" [] k = 2 -> "Addr24"
          [] k = 3 -> "Addr16" [] k = 4 -> "Addr16Lo" [] k = 5 -> "Addr16Hi"
          [] k = 6 -> "Addr16Ha" [] k = 7 -> "Addr14" [] k = 10 -> "Rel24"
          [] k = 11 -> "Rel14" [] k = 201 -> "DolphinNop"
          [] k = 202 -> "DolphinSection" [] k = 203 -> "DolphinEnd"
          [] k = 204 -> "DolphinMRKREF"]

\* the loop of parse_imports over the records of one table, from `at`
RECURSIVE ReadImports(_, _, _)
ReadImports(file, at, imports) ==
    LET short == FirstShort(file, at, <<2, 1, 1, 4>>)
        word == Bu32(file, at)
        kind == word.lo \div 256
        import == [kind |-> KindOfByte[kind], section |-> word.lo % 256,
                   offset |-> word.hi, addend |-> Bu32(file, Offset(at, U32(0, 4)))]
    IN  IF short # 0 THEN RelResult("Err", "ReadFailed", short, <<>>)
        ELSE IF kind \notin DOMAIN KindOfByte
        THEN RelResult("Err", "InvalidData", 0, <<>>)
        ELSE IF import.kind = "DolphinEnd"
        THEN RelResult("Ok", "", 0, Append(imports, import))
        ELSE ReadImports(file, Offset(at, U32(0, 8)), Append(imports, import))

\* `checks`: the build has integer overflow checks, import_offset + i * 8
\* panics when it leaves 32 bits; without them it wraps
RECURSIVE ParseImports(_, _, _, _, _, _)
ParseImports(file, checks, origin, import_offset, import_size, tables) ==
    IF Len(tables) = AsLength(import_size) \div 8 THEN RelResult("Ok", "", 0, tables)
    ELSE
    LET i == Len(tables)
        sum == WrappingAdd(import_offset, U32(0, i * 8))
        at == Offset(origin, sum.value)
        short == FirstShort(file, at, <<4, 4>>)
        module == Bu32(file, at)
        offset == Bu32(file, Offset(at, U32(0, 4)))
        imports == ReadImports(file, Offset(origin, offset), <<>>)
    IN  IF sum.overflow /\ checks THEN RelResult("Panic", "", 0, <<>>)
        ELSE IF short # 0 THEN RelResult("Err", "ReadFailed", short, <<>>)
        ELSE IF imports.kind # "Ok" THEN imports
        ELSE ParseImports(file, checks, origin, import_offset, import_size,
                 Append(tables, [module |-> module, offset |-> offset,
                                 imports |-> imports.value]))

EnsureHeader_throughVersion4(version, section_count, section_offset) ==
    IF ~(version <= 4) THEN "UnsupportedVersion"
    ELSE IF ~(section_count > 1) THEN "InvalidRange"
    ELSE IF ~(section_count < 32) THEN "InvalidRange"
    ELSE IF ~(section_offset >= 64) THEN "InvalidRange"
    ELSE ""

\* the ensure! checks of from_binary on the header, in their order: the
\* ParseProblem of the first one that fails, "" when all hold
EnsureHeader(version, section_count, section_offset) ==
    IF ~(version <= 3) THEN "UnsupportedVersion"
    ELSE IF ~(section_count > 1) THEN "InvalidRange"
    ELSE IF ~(section_count < 32) THEN "InvalidRange"
    ELSE IF ~(section_offset >= 64) THEN "InvalidRange"
    ELSE ""

\* Rel::from_binary on a stream that stands at file.origin.  Of the Rel the
\* model keeps version, sections and import_tables; the other fields are
\* copies of header words
RelFromBinary(file, checks) ==
    LET origin == file.origin
        Field(at) == Bu32(file, Offset(origin, U32(0, at)))
        short == FirstShort(file, origin,
                            <<4, 4, 4, 4, 4, 4, 4, 4, 4, 4, 4, 4, 1, 1, 1, 1, 4, 4, 4>>)
        version == AsLength(Field(28))
        section_count == AsLength(Field(12))
        section_offset == Field(16)
        tail == FirstShort(file, Offset(origin, U32(0, 64)),
                           IF version >= 3 THEN <<4, 4, 4>>
                           ELSE IF version >= 2 THEN <<4, 4>> ELSE <<>>)
        sections == ParseSections(file, origin, section_offset, section_count, <<>>)
        tables == ParseImports(file, checks, origin, Field(40), Field(44), <<>>)
        NoRel == [version |-> 0, sections |-> <<>>, import_tables |-> <<>>]
    IN  IF short # 0 THEN RelResult("Err", "ReadFailed", short, NoRel)
        ELSE IF tail # 0 THEN RelResult("Err", "ReadFailed", tail, NoRel)
        ELSE IF EnsureHeader(version, section_count, AsLength(section_offset)) # ""
        THEN RelResult("Err", EnsureHeader(version, section_count, AsLength(section_offset)),
                       0, NoRel)
        ELSE IF sections.kind # "Ok"
        THEN RelResult(sections.kind, sections.problem, sections.n, NoRel)
        ELSE IF tables.kind # "Ok"
        THEN RelResult(tables.kind, tables.problem, tables.n, NoRel)
        ELSE RelResult("Ok", "", 0,
                 [version |-> version, sections |-> sections.value,
                  import_tables |-> tables.value])

\* A REL image as the stream serves it: the position `origin` the stream
\* stands at, the length of the stream, and the words of the header, of two
\* section records, of two import table records and of their import lists.
\* `section` is the second section record, `list` the kind bytes of the
\* records the first import table points at
RelImage(origin, len, version, section_count, section_offset, section, import_offset, import_size, list) ==
    LET At(a) == Offset(origin, a)
        Header == (At(U32(0, 0)) :> U32(0, 203 * 256))
                  @@ (At(U32(0, 12)) :> U32(0, section_count))
                  @@ (At(U32(0, 16)) :> U32(0, section_offset))
                  @@ (At(U32(0, 28)) :> U32(0, version))
                  @@ (At(U32(0, 40)) :> import_offset)
                  @@ (At(U32(0, 44)) :> U32(0, import_size))
                  @@ (At(U32(0, 48)) :> U32(256, 256))
        Sections == (At(U32(0, section_offset + 8)) :> section[1])
                    @@ (At(U32(0, section_offset + 12)) :> section[2])
        Tables == (At(import_offset) :> U32(0, 1))
                  @@ (At(Offset(import_offset, U32(0, 4))) :> U32(0, 768))
                  @@ (At(Offset(import_offset, U32(0, 8))) :> U32(0, 2))
                  @@ (At(Offset(import_offset, U32(0, 12))) :> U32(0, 832))
        Lists == [p \in {At(U32(0, 768 + 8 * (k - 1))) : k \in 1..Len(list)} |->
                     LET k == CHOOSE j \in 1..Len(list) : At(U32(0, 768 + 8 * (j - 1))) = p
                     IN  U32(4 * k, list[k] * 256 + 1)]
                 @@ (At(U32(0, 832)) :> U32(8, 1 * 256 + 1))
                 @@ (At(U32(0, 840)) :> U32(12, 203 * 256))
    IN  [origin |-> origin, len |-> len,
         words |-> Header @@ Sections @@ Tables @@ Lists]

(***************************************************************************)
(* GCM: Fst::deserialize                                                   *)
(***************************************************************************)

\* the RawEntry records RawEntry::new reads from inp, n of them or up to the
\* first read that fails
RECURSIVE RawEntries(_, _)
RawEntries(inp, n) ==
    IF n = 0 THEN [ok |-> TRUE, raws |-> <<>>, inp |-> inp]
    ELSE LET flag_or_name_offset == ReadBu32(inp)
             data_offset_or_parent == ReadBu32(flag_or_name_offset.inp)
             data_length_or_end == ReadBu32(data_offset_or_parent.inp)
             raw == [directory |-> (flag_or_name_offset.value \div 16777216) % 2 # 0,
                     name |-> flag_or_name_offset.value % 16777216,
                     second |-> data_offset_or_parent.value,
                     third |-> data_length_or_end.value]
             rest == RawEntries(data_length_or_end.inp, n - 1)
         IN  IF ~(flag_or_name_offset.ok /\ data_offset_or_parent.ok
                  /\ data_length_or_end.ok)
             THEN [ok |-> FALSE, raws |-> <<>>, inp |-> data_length_or_end.inp]
             ELSE [rest EXCEPT !.raws = <<raw>> \o @]

\* what deserialize returns: Ok with the entries, an Err, or a panic
FstResult(kind, problem, value) == [kind |-> kind, problem |-> problem, value |-> value]

\* the for loop of deserialize over temp_entries, from index i on.
\* &string_table[name..] panics when name > string_table.len()
RECURSIVE NamedEntries(_, _, _, _)
NamedEntries(temp_entries, string_table, i, named) ==
    IF i = Len(temp_entries) THEN FstResult("Ok", "", named)
    ELSE IF i = 0 THEN NamedEntries(temp_entries, string_table, 1, <<Root>>)
    ELSE LET raw == temp_entries[i + 1]
             Entry(name) == IF raw.directory
                            THEN Directory(name, raw.second, i + 1, raw.third)
                            ELSE File(name, i, raw.second, raw.third)
             \* name is what Ascii::first returned
             Named(name) ==
                 IF name.kind # "Ok" THEN FstResult("Err", name.kind, <<>>)
                 ELSE NamedEntries(temp_entries, string_table, i + 1,
                                   Append(named, Entry(name.string)))
         IN  IF raw.name > Len(string_table) THEN FstResult("Panic", "", <<>>)
             ELSE Named(First("Ascii", SubSeq(string_table, raw.name + 1,
                                               Len(string_table))))

\* Fst::deserialize(reader, fst_size).  fst_size - entry_size is a usize
\* subtraction: below zero it panics in a build with overflow checks, and in
\* a build without them wraps to a length of nearly 2^64 bytes, over which
\* vec![0u8; size] in read_as_vec panics with a capacity overflow
FstDeserialize(inp, fst_size) ==
    LET origin == inp.pos
        root_count == RawEntries(inp, 1)
        entry_count == root_count.raws[1].third
        temp_entries == RawEntries(Goto(inp, origin), entry_count)
        entry_size == 12 * entry_count
        string_table == ReadExact(temp_entries.inp, fst_size - entry_size)
    IN  IF ~root_count.ok THEN FstResult("Err", "ReadFailed", <<>>)
        ELSE IF ~(entry_count <= 16384) THEN FstResult("Err", "InvalidRange", <<>>)
        ELSE IF ~temp_entries.ok THEN FstResult("Err", "ReadFailed", <<>>)
        ELSE IF fst_size < entry_size THEN FstResult("Panic", "", <<>>)
        ELSE IF ~string_table.ok THEN FstResult("Err", "ReadFailed", <<>>)
        ELSE NamedEntries(temp_entries.raws, string_table.bytes, 0, <<>>)

(***************************************************************************)
(* RARC: the Nodes iterator                                                *)
(***************************************************************************)
\* bound on the entries of the directory table
MaxDirectories == 3

\* bound on the items a consumer takes from the iterator
MaxItems == 12

\* NodeState::Begin(name), NodeState::End(name), NodeState::File(name, index)
NodeState(state, name, index) == [state |-> state, name |-> name, index |-> index]

\* Node::DirectoryBegin, DirectoryEnd, File, CurrentDirectory, ParentDirectory
Node(node, name) == [node |-> node, name |-> name]

\* RarcReader::nodes: the iterator with Begin(root_node) on its stack
Nodes(parent) == <<NodeState("Begin", parent.root_node, 0)>>

\* Nodes::next on the stack: the stack afterwards and the returned Option.
\* A Folder entry pushes its Begin and returns what next() returns on that
NextNode(parent, stack) ==
    IF stack = <<>> THEN [stack |-> stack, result |-> None]
    ELSE
    LET state == stack[Len(stack)]
        popped == SubSeq(stack, 1, Len(stack) - 1)
    IN  IF state.state = "Begin"
        THEN [stack |-> Append(popped, NodeState("File", state.name, 0)),
              result |-> Some(Node("DirectoryBegin", state.name))]
        ELSE IF state.state = "End"
        THEN [stack |-> popped, result |-> Some(Node("DirectoryEnd", state.name))]
        ELSE IF state.name \notin DOMAIN parent.nodes
        THEN [stack |-> popped, result |-> None]
        ELSE LET node == parent.nodes[state.name]
                 pushed == Append(popped,
                               IF state.index + 1 >= node.count
                               THEN NodeState("End", state.name, 0)
                               ELSE NodeState("File", state.name, state.index + 1))
                 directory == parent.directories[node.index + state.index + 1]
             IN  IF directory.kind = "CurrentFolder"
                 THEN [stack |-> pushed, result |-> Some(Node("CurrentDirectory", ""))]
                 ELSE IF directory.kind = "ParentFolder"
                 THEN [stack |-> pushed, result |-> Some(Node("ParentDirectory", ""))]
                 ELSE IF directory.kind = "Folder"
                 THEN [stack |-> Append(pushed, NodeState("File", directory.name, 0)),
                       result |-> Some(Node("DirectoryBegin", directory.name))]
                 ELSE [stack |-> pushed, result |-> Some(Node("File", directory.name))]

(***************************************************************************)
(* Specifications.  Each one drives one component and leaves the state of  *)
(* the others at rest.                                                     *)
(***************************************************************************)
\* every component but own is at rest
IdleExcept(own) ==
    /\ IF own = "rel" THEN TRUE
       ELSE /\ import_tables = <<>>
            /\ iter = NewIterator
            /\ yielded = <<>>
            /\ last = None
            /\ calls = 0
    /\ IF own = "yaz" THEN TRUE
       ELSE /\ input = Cursor(<<>>, 0)
            /\ destination = <<>>
            /\ dec = DecLocals
            /\ result = "idle"
            /\ backref = None
    /\ IF own = "rdr" THEN TRUE
       ELSE /\ reader = Cursor(<<>>, 0)
            /\ yaz0reader = Yaz0ReaderRec(<<>>, TRUE)
            /\ new_result = "idle"
            /\ new_base = 0
            /\ ret = RetOk(0, <<>>)
            /\ plain = Cursor(<<>>, 0)
            /\ plain_ret = RetOk(0, <<>>)
    /\ IF own = "isy" THEN TRUE
       ELSE /\ isy_input = Cursor(<<>>, 0)
            /\ isy_base = 0
            /\ isy_ret = None
    /\ IF own = "fst" THEN TRUE
       ELSE /\ entries = <<>>
            /\ file_iter = Files
            /\ fst_yielded = <<>>
            /\ fst_done = FALSE
    /\ IF own = "gcm" THEN TRUE
       ELSE /\ gcm_image = GcmImage(0, BOOT_MAGIC, GAMECUBE, U32(0, 0), U32(0, 0), "Ok")
            /\ gcm_checks = FALSE
            /\ gcm_reader = GcmStream(0, 0)
            /\ gcm = GcmCall("idle", "idle", 0, <<>>, 0)
    /\ IF own = "ciso" THEN TRUE
       ELSE /\ ciso_file = CisoFile(0, <<0, 0, 0, 0>>, <<0, 0, 0, 0>>, <<>>, <<>>)
            /\ ciso_reader = CisoReaderRec("idle", 0, <<>>, 0)
            /\ ciso_output = <<>>
            /\ ciso_ret = "idle"
    /\ IF own = "dol" THEN TRUE
       ELSE /\ dol_bytes = <<>>
            /\ dol_ret = DolResult("idle", 0, NoDol)
    /\ IF own = "sjis" THEN TRUE
       ELSE /\ sjis_input = <<>>
            /\ sjis_decoder = DecoderNew
            /\ sjis_steps = <<>>
    /\ IF own = "codec" THEN TRUE
       ELSE /\ codec_input = <<>>
            /\ codec_ret = [codec |-> "idle", all |-> StringResult("Ok", <<>>, 0),
                            first |-> StringResult("Ok", <<>>, 0)]
    /\ IF own = "relp" THEN TRUE
       ELSE /\ rel_file = [origin |-> U32(0, 0), len |-> U32(0, 0), words |-> <<>>]
            /\ rel_ret = [called |-> FALSE, checks |-> FALSE,
                          ret |-> [kind |-> "idle", problem |-> "", n |-> 0, value |-> <<>>]]
    /\ IF own = "fstp" THEN TRUE
       ELSE /\ fst_file = [reader |-> [data |-> <<>>, pos |-> 0], fst_size |-> 0]
            /\ fst_ret = [kind |-> "idle", problem |-> "", value |-> <<>>]
    /\ IF own = "rarc" THEN TRUE
       ELSE /\ rarc = [directories |-> <<>>, nodes |-> <<>>, root_node |-> ""]
            /\ nodes_iter = <<>>
            /\ rarc_yielded = <<>>
            /\ rarc_done = FALSE

\* the variables of every component but own stay as they are
UnchangedExcept(own) ==
    /\ IF own = "rel" THEN TRUE
       ELSE UNCHANGED <<import_tables, iter, yielded, last, calls>>
    /\ IF own = "yaz" THEN TRUE
       ELSE UNCHANGED <<input, destination, dec, result, backref>>
    /\ IF own = "rdr" THEN TRUE
       ELSE UNCHANGED <<reader, yaz0reader, new_result, new_base, ret, plain, plain_ret>>
    /\ IF own = "isy" THEN TRUE
       ELSE UNCHANGED <<isy_input, isy_base, isy_ret>>
    /\ IF own = "fst" THEN TRUE
       ELSE UNCHANGED <<entries, file_iter, fst_yielded, fst_done>>
    /\ IF own = "gcm" THEN TRUE
       ELSE UNCHANGED <<gcm_image, gcm_checks, gcm_reader, gcm>>
    /\ IF own = "ciso" THEN TRUE
       ELSE UNCHANGED <<ciso_file, ciso_reader, ciso_output, ciso_ret>>
    /\ IF own = "dol" THEN TRUE
       ELSE UNCHANGED <<dol_bytes, dol_ret>>
    /\ IF own = "sjis" THEN TRUE
       ELSE UNCHANGED <<sjis_input, sjis_decoder, sjis_steps>>
    /\ IF own = "codec" THEN TRUE
       ELSE UNCHANGED <<codec_input, codec_ret>>
    /\ IF own = "relp" THEN TRUE
       ELSE UNCHANGED <<rel_file, rel_ret>>
    /\ IF own = "fstp" THEN TRUE
       ELSE UNCHANGED <<fst_file, fst_ret>>
    /\ IF own = "rarc" THEN TRUE
       ELSE UNCHANGED <<rarc, nodes_iter, rarc_yielded, rarc_done>>

\* SpecRel: Rel::relocations() on a parsed Rel, then calls of next()
InitRel ==
    LET
        ImportStreams ==
            LET
                \* the import records the streams of the model are made of
                ImportSet ==
                    { Import("DolphinSection", 1, 0, 0),
                      Import("DolphinSection", 2, 0, 0),
                      Import("DolphinNop", 0, 4096, 0),
                      Import("Addr32", 2, 16, 64),
                      Import("Rel24", 1, 8, 4),
                      Import("None", 0, 0, 0),
                      Import("DolphinMRKREF", 0, 0, 0) }
            IN
                { <<>> } \cup
                UNION { { Append(body, EndImport) :
                            body \in [1..n -> ImportSet \cup {EndImport}] } :
                        n \in 0..(MaxImportRecords - 1) }
    IN
        /\ import_tables \in { TablesOf(f, <<>>, 1) : f \in ImportStreams }
        /\ iter = NewIterator
        /\ yielded = <<>>
        /\ last = None
        /\ calls = 0
        /\ IdleExcept("rel")

\* a consumer calls next(); after the call that found the tables exhausted
\* further calls change nothing
RelNext ==
    /\ ~(calls > 0 /\ last = None /\ iter.table >= Len(import_tables))
    /\ LET r == IterNext(import_tables, iter) IN
         /\ iter' = r.st
         /\ last' = r.result
         /\ yielded' = IF r.result = None THEN yielded
                       ELSE Append(yielded,
                                   [relocation |-> r.result[1], at |-> r.at])
    /\ calls' = calls + 1
    /\ UNCHANGED import_tables
    /\ UnchangedExcept("rel")

SpecRel == InitRel /\ [][RelNext]_vars

\* SpecYaz0: decompress_into on a payload and a destination slice
InitYaz0 ==
    LET
        Payloads ==
            LET
                \* the byte values the payloads of the model are made of
                YazBytes == {0, 1, 32, 97, 98, 128, 192}
            IN
                UNION { [1..n -> YazBytes] : n \in 0..MaxPayloadLen }

        \* lengths of the destination slice
        DestSizes == {0, 3, 6, 19}
    IN
        /\ \E data \in Payloads : input = Cursor(data, 0)
        /\ \E size \in DestSizes : destination = Zeros(size)
        /\ dec = DecLocals
        /\ result = "running"
        /\ backref = None
        /\ IdleExcept("yaz")

\* one iteration of the while loop
DecompressStep ==
    /\ result = "running"
    /\ dec.dest < Len(destination)
    /\ LET s == LoopBody(DecState(input, destination, dec, result, backref)) IN
         /\ input' = s.input
         /\ destination' = s.destination
         /\ dec' = s.dec
         /\ result' = s.result
         /\ backref' = s.backref
    /\ UnchangedExcept("yaz")

\* the loop condition fails: Ok(())
DecompressReturn ==
    /\ result = "running"
    /\ ~(dec.dest < Len(destination))
    /\ result' = "Ok"
    /\ UNCHANGED <<input, destination, dec, backref>>
    /\ UnchangedExcept("yaz")

SpecYaz0 == InitYaz0 /\ [][DecompressStep \/ DecompressReturn]_vars

\* SpecReader: Yaz0Reader::new on a stream, then read and seek calls, each
\* made on the Yaz0Reader and on the stream used on its own
InitReader ==
    /\ reader \in Streams
    /\ plain = reader
    /\ new_base = reader.pos
    /\ yaz0reader = Yaz0ReaderRec(<<>>, TRUE)
    /\ new_result = "NotCalled"
    /\ ret = RetOk(0, <<>>)
    /\ plain_ret = RetOk(0, <<>>)
    /\ IdleExcept("rdr")

New ==
    /\ new_result = "NotCalled"
    /\ LET r == Yaz0New(reader) IN
         /\ reader' = r.reader
         /\ yaz0reader' = r.yaz0reader
         /\ new_result' = r.outcome
    /\ UNCHANGED <<new_base, ret, plain, plain_ret>>
    /\ UnchangedExcept("rdr")

Read ==
    LET
        ReadSizes == {0, 1, 3}
    IN
        /\ new_result = "Ok"
        /\ ~ret.panic
        /\ \E n \in ReadSizes :
             LET r == Yaz0Read(reader, yaz0reader, n)
                 p == CursorRead(plain, n)
             IN  /\ reader' = r.stream
                 /\ yaz0reader' = r.yaz0reader
                 /\ ret' = r.ret
                 /\ plain' = p.stream
                 /\ plain_ret' = p.ret
        /\ UNCHANGED <<new_result, new_base>>
        /\ UnchangedExcept("rdr")

Seek ==
    LET
        Seeks ==
            { SeekFrom("Start", n) : n \in {0, 2, 18} } \cup
            { SeekFrom("Current", n) : n \in {-1, 1} } \cup
            { SeekFrom("End", n) : n \in {-1, 0, 1} }

        \* seeks by i64::MAX.  They are made on a Yaz0Reader that holds
        \* decompressed data; the stream used on its own is not taken along
        Far == { SeekFrom("Current", I64Max), SeekFrom("End", I64Max) }
    IN
        /\ new_result = "Ok"
        /\ ~ret.panic
        /\ \E pos \in Seeks \cup Far, checks \in BOOLEAN :
             LET r == Yaz0Seek(reader, yaz0reader, pos, checks)
                 p == IF pos \in Far THEN [stream |-> plain, ret |-> plain_ret]
                      ELSE CursorSeek(plain, pos)
             IN  /\ pos \in Far => ~yaz0reader.transparent
                 /\ p.stream.pos <= MaxPos
                 /\ r.stream.pos <= MaxPos
                 /\ reader' = r.stream
                 /\ yaz0reader' = r.yaz0reader
                 /\ ret' = r.ret
                 /\ plain' = p.stream
                 /\ plain_ret' = p.ret
        /\ UNCHANGED <<new_result, new_base>>
        /\ UnchangedExcept("rdr")

SpecReader == InitReader /\ [][New \/ Read \/ Seek]_vars

\* SpecIsYaz0: is_yaz0 on a stream
InitIsYaz0 ==
    /\ isy_input \in Streams
    /\ isy_base = isy_input.pos
    /\ isy_ret = None
    /\ IdleExcept("isy")

IsYaz0Call ==
    /\ isy_ret = None
    /\ LET r == IsYaz0(isy_input) IN
         /\ isy_input' = r.stream
         /\ isy_ret' = Some(r.value)
    /\ UNCHANGED isy_base
    /\ UnchangedExcept("isy")

SpecIsYaz0 == InitIsYaz0 /\ [][IsYaz0Call]_vars

\* SpecFst: Fst::files() on a parsed Fst, then calls of next()
InitFst ==
    /\ entries \in FstEntries
    /\ file_iter = Files
    /\ fst_yielded = <<>>
    /\ fst_done = FALSE
    /\ IdleExcept("fst")

\* a consumer calls next(); after the call that returned None further calls
\* return None again and change nothing
FstNext ==
    /\ ~fst_done
    /\ LET r == FileIteratorNext(entries, file_iter) IN
         /\ file_iter' = r.st
         /\ fst_done' = (r.result = None)
         /\ fst_yielded' = IF r.result = None THEN fst_yielded
                           ELSE Append(fst_yielded, r.result[1])
    /\ UNCHANGED entries
    /\ UnchangedExcept("fst")

SpecFst == InitFst /\ [][FstNext]_vars

\* SpecFstFair: the consumer goes on calling next() until it returns None
SpecFstFair == SpecFst /\ WF_vars(FstNext)

\* SpecGcm: Gcm::from_binary on a stream at position base, one parsed part
\* after another
InitGcm ==
    LET
        GcmBases == {0, 16}
    IN
        /\ gcm_image \in GcmImages
        /\ gcm_checks \in BOOLEAN
        /\ \E b \in GcmBases :
             /\ gcm_reader = GcmStream(gcm_image.len, b)
             /\ gcm = GcmCall("Boot", "running", b, <<>>, 0)
        /\ IdleExcept("gcm")

\* a part was parsed: return its error, or InvalidData when the stream is
\* not at `expected`, or go on with the next part
GcmAfter(part, r, expected, next_stage, data_len) ==
    /\ gcm_reader' = r.stream
    /\ gcm' = IF r.result # "Ok"
              THEN [gcm EXCEPT !.stage = "returned", !.result = r.result]
              ELSE IF expected # r.stream.pos
              THEN [gcm EXCEPT !.stage = "returned", !.result = "InvalidData",
                               !.parsed = Append(@, part),
                               !.data_len = data_len]
              ELSE [gcm EXCEPT !.stage = next_stage,
                               !.parsed = Append(@, part),
                               !.data_len = data_len]
    /\ UNCHANGED <<gcm_image, gcm_checks>>
    /\ UnchangedExcept("gcm")

ParseBoot ==
    LET
        \* the three position checks of Gcm::from_binary
        BootEnd(position) == position + 1088
    IN
        /\ gcm.stage = "Boot"
        /\ GcmAfter("Boot", BootFromBinary(gcm_reader, gcm_image),
                    BootEnd(gcm.position), "Bi2", 0)

ParseBi2 ==
    LET
        Bi2End(position) == position + 9280
    IN
        /\ gcm.stage = "Bi2"
        /\ GcmAfter("Bi2", Bi2FromBinary(gcm_reader),
                    Bi2End(gcm.position), "Apploader", 0)

ParseApploader ==
    LET
        ApploaderEnd(position, data_len) == position + 9312 + data_len
    IN
        /\ gcm.stage = "Apploader"
        /\ LET r == ApploaderFromBinary(gcm_reader, gcm_image, gcm_checks) IN
           GcmAfter("Apploader", r, ApploaderEnd(gcm.position, r.data_len),
                    "Executable", r.data_len)

\* the seeks to the Boot offsets, Executable::from_binary and the Fst: they
\* succeed or fail as the image has it, the Cursor ending at the end of the
\* image, where the FST lies or where the failing read left it
ParseExecutableAndFst ==
    /\ gcm.stage = "Executable"
    /\ gcm_reader' = [gcm_reader EXCEPT !.pos = gcm_reader.len]
    /\ gcm' = IF gcm_image.rest = "Ok"
              THEN [gcm EXCEPT !.stage = "returned", !.result = "Ok",
                               !.parsed = @ \o <<"Executable", "Fst">>]
              ELSE [gcm EXCEPT !.stage = "returned", !.result = "ReadFailed"]
    /\ UNCHANGED <<gcm_image, gcm_checks>>
    /\ UnchangedExcept("gcm")

SpecGcm == InitGcm /\ [][ParseBoot \/ ParseBi2 \/ ParseApploader \/ ParseExecutableAndFst]_vars

\* SpecCiso: CisoReader::new on a stream, then decompress, one block of the
\* BlockIterator after another
InitCiso ==
    /\ ciso_file \in CisoFiles
    /\ ciso_reader = CisoReaderRec("NotCalled", 0, <<>>, 0)
    /\ ciso_output = <<>>
    /\ ciso_ret = "NotCalled"
    /\ IdleExcept("ciso")

CisoNew ==
    /\ ciso_reader.result = "NotCalled"
    /\ LET h == CisoHeaderFromBinary(ciso_file) IN
         ciso_reader' = CisoReaderRec(h.result, h.block_size, h.blocks, 0)
    /\ UNCHANGED <<ciso_file, ciso_output, ciso_ret>>
    /\ UnchangedExcept("ciso")

\* decompress is called on the reader
CisoDecompress ==
    /\ ciso_reader.result = "Ok"
    /\ ciso_ret = "NotCalled"
    /\ ciso_ret' = "running"
    /\ UNCHANGED <<ciso_file, ciso_reader, ciso_output>>
    /\ UnchangedExcept("ciso")

\* BlockIterator::next returns Some(read_block(index)); decompress writes
\* the block or returns its error
CisoBlock ==
    /\ ciso_ret = "running"
    /\ ciso_reader.index < Len(ciso_reader.blocks)
    /\ LET r == ReadBlock(ciso_file, ciso_reader, ciso_reader.index) IN
         /\ ciso_output' = IF r.ok THEN ciso_output \o r.data ELSE ciso_output
         /\ ciso_ret' = IF r.ok THEN "running" ELSE "ReadFailed"
    /\ ciso_reader' = [ciso_reader EXCEPT !.index = @ + 1]
    /\ UNCHANGED ciso_file
    /\ UnchangedExcept("ciso")

\* BlockIterator::next returns None: decompress returns Ok(())
CisoEnd ==
    /\ ciso_ret = "running"
    /\ ~(ciso_reader.index < Len(ciso_reader.blocks))
    /\ ciso_ret' = "Ok"
    /\ UNCHANGED <<ciso_file, ciso_reader, ciso_output>>
    /\ UnchangedExcept("ciso")

SpecCiso == InitCiso /\ [][CisoNew \/ CisoDecompress \/ CisoBlock \/ CisoEnd]_vars

\* SpecDol: from_bytes on the bytes of a file
InitDol ==
    /\ dol_bytes \in DolFiles
    /\ dol_ret = DolResult("NotCalled", 0, NoDol)
    /\ IdleExcept("dol")

DolFromBytes ==
    /\ dol_ret.result = "NotCalled"
    /\ dol_ret' = FromBytes(dol_bytes)
    /\ UNCHANGED dol_bytes
    /\ UnchangedExcept("dol")

SpecDol == InitDol /\ [][DolFromBytes]_vars

\* SpecSjis: ShiftJis2004::iter on a byte sequence, then calls of next().
\* The iterator is not fused, so next() is also called after None or an
\* error; the calls are cut off two after the length of the input.
InitSjis ==
    /\ sjis_input \in SjisInputs
    /\ sjis_decoder = DecoderNew
    /\ sjis_steps = <<>>
    /\ IdleExcept("sjis")

SjisNext ==
    /\ Len(sjis_steps) < Len(sjis_input) + 2
    /\ LET r == DecoderNext(sjis_input, sjis_decoder)
       IN  /\ sjis_decoder' = r.decoder
           /\ sjis_steps' = Append(sjis_steps,
                                   [item |-> r.item,
                                    from |-> sjis_decoder.iter,
                                    to   |-> r.decoder.iter])
    /\ UNCHANGED sjis_input
    /\ UnchangedExcept("sjis")

SpecSjis == InitSjis /\ [][SjisNext]_vars

\* SpecRelParse: Rel::from_binary on a REL image
InitRelParse ==
    /\ rel_file \in
          { RelImage(origin, len, version, section_count, section_offset, section,
                     import_offset, import_size, list) :
              origin \in {U32(0, 0), U32(0, 8)},
              len \in {U32(0, 72), U32(0, 1024), U32(65537, 0)},
              version \in {1, 3, 4},
              section_count \in {1, 2, 32},
              section_offset \in {60, 80},
              section \in { <<U32(0, 257), U32(0, 16)>>, <<U32(0, 2), U32(0, 16)>>,
                            <<U32(0, 0), U32(512, 1)>>, <<U32(0, 256), U32(512, 1)>>,
                            <<U32(0, 256), U32(512, 0)>> },
              import_offset \in {U32(0, 512), U32(65535, 65528)},
              import_size \in {0, 8, 16},
              list \in { <<203>>, <<1, 203>>, <<203, 1>>, <<1, 9>>, <<1>> } }
    /\ rel_ret = [called |-> FALSE, checks |-> FALSE, ret |-> RelResult("Ok", "", 0, <<>>)]
    /\ IdleExcept("relp")

RelParse ==
    /\ ~rel_ret.called
    /\ \E checks \in BOOLEAN :
          rel_ret' = [called |-> TRUE, checks |-> checks,
                      ret |-> RelFromBinary(rel_file, checks)]
    /\ UNCHANGED rel_file
    /\ UnchangedExcept("relp")

SpecRelParse == InitRelParse /\ [][RelParse]_vars

\* SpecFstParse: Fst::deserialize on a stream that holds the records of a
\* root and of at most one more entry, and behind them the name table
InitFstParse ==
    LET Record(flag, name, third) == <<flag, 0, 0, name, 0, 0, 0, 0, 0, 0, third \div 256, third % 256>>
        Names == UNION { [1..n -> {0, 97, 200}] : n \in 0..MaxNames }
    IN  /\ fst_file \in
              { [reader |-> Cursor(Record(1, 0, root_count)
                                   \o (IF records = 2 THEN Record(flag, name, 0) ELSE <<>>)
                                   \o names, 0),
                 fst_size |-> fst_size] :
                  root_count \in {1, 2, 3, 16385}, records \in {1, 2}, flag \in {0, 1},
                  name \in {0, 1, MaxNames, MaxNames + 1}, names \in Names,
                  fst_size \in {0, 11, 12, 23} \cup (24..(24 + MaxNames + 1)) }
        /\ fst_ret = FstResult("NotCalled", "", <<>>)
        /\ IdleExcept("fstp")

FstParse ==
    /\ fst_ret.kind = "NotCalled"
    /\ fst_ret' = FstDeserialize(fst_file.reader, fst_file.fst_size)
    /\ UNCHANGED fst_file
    /\ UnchangedExcept("fstp")

SpecFstParse == InitFstParse /\ [][FstParse]_vars

\* SpecRarc: RarcReader::nodes() on a parsed archive, then calls of next()
\* by a consumer that stops at the first None
InitRarc ==
    LET RarcDirectory(kind, name) == [kind |-> kind, name |-> name]
        Directories ==
            { RarcDirectory("File", "f"), RarcDirectory("Folder", "r"),
              RarcDirectory("Folder", "a"), RarcDirectory("Folder", "m"),
              RarcDirectory("CurrentFolder", ""), RarcDirectory("ParentFolder", "") }
        \* the nodes RarcReader::new accepts over n directories:
        \* index < n and index + count <= n
        RarcNodes(n) == { [index |-> i, count |-> c] : i \in 0..(n - 1), c \in 0..n } \cap
                        { [index |-> i, count |-> n - i - d] : i \in 0..(n - 1), d \in 0..n }
    IN  /\ rarc \in
              { [directories |-> directories, nodes |-> nodes, root_node |-> "r"] :
                  directories \in UNION { [1..n -> Directories] : n \in 1..MaxDirectories },
                  nodes \in UNION { [names -> RarcNodes(MaxDirectories)] :
                                       names \in {{"r"}, {"r", "a"}} } }
        /\ \A name \in DOMAIN rarc.nodes :
              rarc.nodes[name] \in RarcNodes(Len(rarc.directories))
        /\ nodes_iter = Nodes(rarc)
        /\ rarc_yielded = <<>>
        /\ rarc_done = FALSE
        /\ IdleExcept("rarc")

NodesNext ==
    /\ ~rarc_done
    /\ Len(rarc_yielded) < MaxItems
    /\ LET r == NextNode(rarc, nodes_iter) IN
         /\ nodes_iter' = r.stack
         /\ rarc_done' = (r.result = None)
         /\ rarc_yielded' = IF r.result = None THEN rarc_yielded
                            ELSE Append(rarc_yielded, r.result[1])
    /\ UNCHANGED rarc
    /\ UnchangedExcept("rarc")

SpecRarc == InitRarc /\ [][NodesNext]_vars /\ WF_vars(NodesNext)

\* SpecCodec: all and first of one of the codecs on a byte sequence
InitCodec ==
    /\ codec_input \in SjisInputs
    /\ codec_ret = [codec |-> "NotCalled", all |-> StringResult("Ok", <<>>, 0),
                    first |-> StringResult("Ok", <<>>, 0)]
    /\ IdleExcept("codec")

CodecCall ==
    LET
        \* the codecs with an `all` and a `first`
        Codecs == {"Ascii", "JisX0201", "ShiftJis1997", "ShiftJis2004"}
    IN
        /\ codec_ret.codec = "NotCalled"
        /\ \E codec \in Codecs :
              codec_ret' = [codec |-> codec,
                            all   |-> All(codec, codec_input),
                            first |-> First(codec, codec_input)]
        /\ UNCHANGED codec_input
        /\ UnchangedExcept("codec")

SpecCodec == InitCodec /\ [][CodecCall]_vars

(***************************************************************************)
(* REL: properties of the relocation iterator                              *)
(***************************************************************************)
\* positions (table, index) of the imports of the Rel, 0-based
PosSet ==
    UNION { { <<t, i>> : i \in 0..(Len(import_tables[t + 1].imports) - 1) } :
            t \in 0..(Len(import_tables) - 1) }

ImportAt(p) == import_tables[p[1] + 1].imports[p[2] + 1]

\* import-table order, then import-index order within a table
Before(p, q) == p[1] < q[1] \/ (p[1] = q[1] /\ p[2] < q[2])

\* the imports next() has gone past
Consumed(p) == Before(p, <<iter.table, iter.index>>)

IsReloc(p) == ImportAt(p).kind \in RelocationKinds

SwitchesBefore(p) ==
    { q \in PosSet : Before(q, p) /\ ImportAt(q).kind = "DolphinSection" }

LastSwitch(p) ==
    CHOOSE q \in SwitchesBefore(p) :
        \A r \in SwitchesBefore(p) : r = q \/ Before(r, q)

RECURSIVE SumOffsets(_)
SumOffsets(ps) ==
    IF ps = {} THEN 0
    ELSE LET p == CHOOSE x \in ps : TRUE
         IN  ImportAt(p).offset + SumOffsets(ps \ {p})

\* the Nop and relocation-kind imports after position q up to and including p
Accumulating(q, p) ==
    { r \in PosSet :
        /\ Before(q, r)
        /\ (Before(r, p) \/ r = p)
        /\ ImportAt(r).kind \in RelocationKinds \cup {"DolphinNop"} }

RelDone == iter.table >= Len(import_tables)

YieldedInOrder ==
    \A k \in 1..Len(yielded) : \A l \in 1..Len(yielded) :
        k < l => Before(yielded[k].at, yielded[l].at)

YieldedPositions == { yielded[k].at : k \in 1..Len(yielded) }

\* C1 (as stated): once every table is exhausted, exactly one Relocation has
\* been yielded for each relocation-kind import of the Rel, in table order
\* and then index order.
CE_C1 ==
    RelDone =>
        /\ YieldedInOrder
        /\ YieldedPositions = { p \in PosSet : IsReloc(p) }

\* C1 (amended): calling next() until the tables are exhausted yields, in
\* table order and then index order, exactly one Relocation for each
\* relocation-kind import that was reached while a target section was set
\* (a SectionSwitch precedes it) and none for a relocation-kind import
\* reached with no target section; every yielded Relocation carries the
\* kind of its import and a section set by a preceding SectionSwitch.
Thm_C1 ==
    /\ YieldedInOrder
    /\ YieldedPositions =
           { p \in PosSet : Consumed(p) /\ IsReloc(p) /\ SwitchesBefore(p) # {} }
    /\ \A k \in 1..Len(yielded) :
           /\ yielded[k].relocation.kind = ImportAt(yielded[k].at).kind
           /\ \E q \in SwitchesBefore(yielded[k].at) :
                  yielded[k].relocation.target.section = ImportAt(q).section

\* the iteration went past a relocation-kind import that had no target
\* section and later yielded a relocation, and every table is exhausted
Wit_C1 ==
    /\ RelDone
    /\ Len(yielded) >= 1
    /\ \E p \in PosSet :
           IsReloc(p) /\ SwitchesBefore(p) = {} /\ Before(p, yielded[1].at)

\* spec.md, scenario 2
ExampleImports ==
    << Import("DolphinSection", 1, 0, 0),
       Import("DolphinNop", 0, 4096, 0),
       Import("Addr32", 2, 16, 64),
       EndImport >>

\* C2: the target of every yielded Relocation is the section of the most
\* recent SectionSwitch and the sum of the offsets of the Nop and
\* relocation-kind imports after that SectionSwitch, itself included; its
\* reference is (import.section, import.addend).  The stream
\* [SectionSwitch(1), Nop(0x1000), Addr32(2, 0x10, 0x40), End] yields exactly
\* one Relocation, with target (1, 0x1010) and reference (2, 0x40).
Thm_C2 ==
    /\ \A k \in 1..Len(yielded) :
         LET p == yielded[k].at
             r == yielded[k].relocation
         IN  /\ r.target.section = ImportAt(LastSwitch(p)).section
             /\ r.target.offset = SumOffsets(Accumulating(LastSwitch(p), p))
             /\ r.reference = [section |-> ImportAt(p).section,
                               offset  |-> ImportAt(p).addend]
    /\ (RelDone /\ Len(import_tables) = 1
          /\ import_tables[1].imports = ExampleImports)
       => /\ Len(yielded) = 1
          /\ yielded[1].relocation =
                 [kind      |-> "Addr32",
                  module    |-> import_tables[1].module,
                  reference |-> [section |-> 2, offset |-> 64],
                  target    |-> [section |-> 1, offset |-> 4112]]

\* the scenario stream was iterated to its end and yielded its relocation
Wit_C2 ==
    /\ RelDone
    /\ Len(import_tables) = 1
    /\ import_tables[1].imports = ExampleImports
    /\ Len(yielded) = 1

\* C3 (as stated): the target section and offset are reset at a table
\* boundary, so every yielded Relocation has its SectionSwitch in its own
\* table and its offset is accumulated within that table only.
CE_C3 ==
    \A k \in 1..Len(yielded) :
        LET p == yielded[k].at
        IN  /\ \E q \in SwitchesBefore(p) : q[1] = p[1]
            /\ LastSwitch(p)[1] = p[1]

\* C4 (as stated): a relocation-kind import with no target section is
\* skipped inside the same call, so next() returns None only when every
\* import table is exhausted.
CE_C4 ==
    (calls > 0 /\ last = None) => RelDone

(***************************************************************************)
(* Yaz0: properties of decompress_into                                     *)
(***************************************************************************)
\* the reference decoder has no output
RefFail == <<-1>>

\* event k (0 = first) of a code byte: its bits, most significant first
Bit(c, k) == (c \div (2 ^ (7 - k))) % 2

\* append n bytes, one at a time, each the byte offset + 1 positions before
\* the current end of the output: the last offset + 1 bytes of out, repeated
\* for n bytes
RefCopy(out, offset, n) ==
    out \o [i \in 1..n |-> out[Len(out) - offset + ((i - 1) % (offset + 1))]]

\* the reference decoder: p is the (1-based) index of the next input byte,
\* c the current code byte and k the number of its events already taken
RECURSIVE RefEvents(_, _, _, _, _, _)
RefEvents(data, p, c, k, out, size) ==
    IF Len(out) >= size THEN out
    ELSE IF k = 8
    THEN IF p > Len(data) THEN RefFail
         ELSE RefEvents(data, p + 1, data[p], 0, out, size)
    ELSE IF Bit(c, k) = 1
    THEN IF p > Len(data) THEN RefFail
         ELSE RefEvents(data, p + 1, c, k + 1, Append(out, data[p]), size)
    ELSE IF p + 1 > Len(data) THEN RefFail
    ELSE LET b0     == data[p]
             b1     == data[p + 1]
             L      == b0 \div 16
             offset == (b0 % 16) * 256 + b1
         IN  IF L = 0 /\ p + 2 > Len(data) THEN RefFail
             ELSE IF offset + 1 > Len(out) THEN RefFail
             ELSE LET length == IF L # 0 THEN L + 2 ELSE data[p + 2] + 18
                      used   == IF L # 0 THEN 2 ELSE 3
                  IN  RefEvents(data, p + used, c, k + 1,
                                RefCopy(out, offset, length), size)

RefDecode(data, size) == RefEvents(data, 1, 0, 8, <<>>, size)

Written == SubSeq(destination, 1, dec.dest)

\* C5: the output of decompress_into is the output of the reference decoder
\* (code groups of one code byte and up to 8 events, MSB first; 1 = literal;
\* 0 = back-reference b0 b1 with L = b0 >> 4, offset = ((b0 & 0x0F) << 8) | b1,
\* length L + 2 or, for L = 0, next byte + 0x12; the copy appends one byte at
\* a time from offset + 1 positions before the end): the call returns Ok
\* exactly when the reference decoder produces destination.len() bytes, the
\* destination then holds those bytes, and what has been written so far is
\* always a prefix of the reference output.
Thm_C5 ==
    LET ref == RefDecode(input.data, Len(destination)) IN
    /\ result = "Ok" => destination = ref
    /\ result \in {"ReadFailed", "UnexpectedEndOfData"} => ref = RefFail
    /\ result \in {"running", "panic"} /\ ref # RefFail =>
           Written = SubSeq(ref, 1, dec.dest)
    /\ result = "panic" => ref # RefFail /\ Len(ref) > Len(destination)

\* a 19-byte output was completed by a three-byte back-reference (L = 0,
\* length 0x12) that overlaps its own output
Wit_C5 ==
    /\ result = "Ok"
    /\ Len(destination) = 19
    /\ backref # None
    /\ backref[1].length = 18
    /\ backref[1].offset + 1 < backref[1].length

\* spec.md, scenario 4: code byte 0xC0, literals 'a' 'b', back-reference
\* b0 = 0x20, b1 = 0x00
OverlapPayload == <<192, 97, 98, 32, 0>>

OverlapCase ==
    /\ input.data = OverlapPayload
    /\ Len(destination) = 6
    /\ result \notin {"running", "idle"}

\* C6 (as stated): the scenario payload decoded into 6 bytes gives "abaaaa".
CE_C6 == OverlapCase => result = "Ok" /\ destination = <<97, 98, 97, 97, 97, 97>>

\* C6 (amended): the scenario payload decoded into 6 bytes gives "abbbbb":
\* the back-reference has length 4 and offset field 0, so it repeats the
\* byte one position before the end, which is 'b'.
Thm_C6 == OverlapCase => result = "Ok" /\ destination = <<97, 98, 98, 98, 98, 98>>

\* the scenario payload was decoded to the end
Wit_C6 == OverlapCase /\ result = "Ok" /\ dec.dest = 6

\* C7 (as stated): no write is attempted at an index >= destination.len(); a
\* back-reference is copied only when dest + length <= destination.len();
\* decoding stops exactly when dest == destination.len().
CE_C7 ==
    /\ result # "panic"
    /\ dec.dest <= Len(destination)
    /\ (backref # None /\ result # "UnexpectedEndOfData") =>
           backref[1].dest + backref[1].length <= Len(destination)
    /\ result = "Ok" => dec.dest = Len(destination)

\* C8: a back-reference whose offset + 1 exceeds dest makes the call return
\* UnexpectedEndOfData, only such a back-reference does, and a copy never
\* starts at a negative index.
Thm_C8 ==
    /\ backref # None =>
           (backref[1].offset + 1 > backref[1].dest
                <=> result = "UnexpectedEndOfData")
    /\ (backref # None /\ result # "UnexpectedEndOfData") => backref[1].base >= 0
    /\ result = "UnexpectedEndOfData" => backref # None

\* a back-reference one byte too far back, with output already written
Wit_C8 ==
    /\ result = "UnexpectedEndOfData"
    /\ backref # None
    /\ backref[1].dest > 0
    /\ backref[1].offset = backref[1].dest

(***************************************************************************)
(* Yaz0: properties of Yaz0Reader                                          *)
(***************************************************************************)
NewCalled == new_result \notin {"NotCalled", "idle"}

\* the bytes of the stream from the position new was called at
FromBase == SubSeq(plain.data, new_base + 1, Len(plain.data))

MagicPresent == Len(FromBase) >= 4 /\ SubSeq(FromBase, 1, 4) = <<89, 97, 122, 48>>

HeaderComplete == Len(FromBase) >= 16

\* the decompressed size (its low byte; the others are 0 in the model) and
\* the payload of a stream with a whole header
SizeField == FromBase[8]

PayloadBytes == SubSeq(FromBase, 17, Len(FromBase))

\* C9: when the magic is absent or the header cannot be read in full, new
\* returns Ok with a transparent reader of decompressed_size() 0 and the
\* stream is back where it was; with a valid magic and a whole header an Ok
\* reader holds the decompressed data, and new returns Err only then, when
\* the decompression fails.
Thm_C9 ==
    NewCalled =>
      /\ (~MagicPresent \/ ~HeaderComplete) =>
            /\ new_result = "Ok"
            /\ yaz0reader.transparent
            /\ Len(yaz0reader.decompressed) = 0
            /\ reader.pos = plain.pos
      /\ (MagicPresent /\ HeaderComplete /\ new_result = "Ok") =>
            /\ ~yaz0reader.transparent
            /\ Len(yaz0reader.decompressed) = SizeField
            /\ yaz0reader.decompressed = RefDecode(PayloadBytes, SizeField)
      /\ new_result = "Err" =>
            /\ MagicPresent /\ HeaderComplete
            /\ RefDecode(PayloadBytes, SizeField) = RefFail

\* new was called in the middle of a stream that has the magic but not the
\* whole header, and nothing was read or sought since
Wit_C9 ==
    /\ new_result = "Ok"
    /\ new_base > 0
    /\ MagicPresent /\ ~HeaderComplete
    /\ yaz0reader.transparent
    /\ reader.pos = new_base

\* C10: on a stream that does not start with the Yaz0 magic, every read and
\* seek on the Yaz0Reader returns what the same call returns on the stream
\* used on its own from the position it had before new, and leaves the
\* stream at the same position.
Thm_C10 ==
    (NewCalled /\ ~MagicPresent) =>
        /\ new_result = "Ok"
        /\ ret = plain_ret
        /\ reader = plain

\* a read through the Yaz0Reader returned the first bytes of the would-be
\* header of a stream that new was given at a position other than 0
Wit_C10 ==
    /\ new_result = "Ok"
    /\ ~MagicPresent
    /\ new_base > 0
    /\ ret.ok /\ Len(ret.bytes) = 3
    /\ ret.bytes = SubSeq(FromBase, 1, 3)

(***************************************************************************)
(* Yaz0: properties of is_yaz0                                             *)
(***************************************************************************)
\* C11: is_yaz0 leaves the stream position unchanged on return for every
\* input stream, whether it returns true or false, including when fewer
\* than 16 bytes follow the position so that the header cannot be read.
CE_C11 ==
    isy_ret # None => isy_input.pos = isy_base

(***************************************************************************)
(* GCM: properties of the FileIterator                                     *)
(***************************************************************************)
\* 0-based indices of the entries, and of the directories among them
EntryIndices == 0..(Len(entries) - 1)

DirectoryIndices == { i \in EntryIndices : entries[i + 1].type = "Directory" }

\* directory j spans the child range [begin, end) and i lies in it
InRange(j, i) == entries[j + 1].begin <= i /\ i < entries[j + 1].end

\* the root holding file "a" and directory "d" that holds file "b"
ExampleFst ==
    << Root, File("a", 1, 0, 0), Directory("d", 0, 3, 4), File("b", 3, 0, 0) >>

ExampleItems ==
    << Item(<<>>, Root),
       Item(<<"a">>, File("a", 1, 0, 0)),
       Item(<<"d">>, Directory("d", 0, 3, 4)),
       Item(<<"d", "b">>, File("b", 3, 0, 0)) >>

\* C12: files() yields every entry exactly once in ascending index order,
\* beginning with (empty path, Root): the k-th item carries the entry of
\* index k - 1, a Directory comes before every entry of its child range,
\* and when next() returns None every entry has been yielded; the example
\* Fst gives (empty, Root), ("a", File), ("d", Directory), ("d/b", File).
Thm_C12 ==
    /\ Len(fst_yielded) <= Len(entries)
    /\ \A k \in 1..Len(fst_yielded) : fst_yielded[k].entry = entries[k]
    /\ fst_yielded # <<>> => fst_yielded[1] = Item(<<>>, Root)
    /\ \A k, l \in 1..Len(fst_yielded) :
         (k - 1) \in DirectoryIndices /\ InRange(k - 1, l - 1) => k < l
    /\ fst_done => Len(fst_yielded) = Len(entries)
    /\ fst_done /\ entries = ExampleFst => fst_yielded = ExampleItems

Wit_C12 ==
    /\ fst_done
    /\ entries = ExampleFst
    /\ fst_yielded = ExampleItems

\* every directory spans a contiguous child range [begin, end) inside the
\* entry list, and the range of a directory inside it is contained in it
ProperlyNested ==
    \A j \in DirectoryIndices :
        /\ entries[j + 1].begin <= entries[j + 1].end
        /\ entries[j + 1].end <= Len(entries)
        /\ \A i \in DirectoryIndices :
             InRange(j, i) => entries[i + 1].end <= entries[j + 1].end

\* the directories before index i, in index order, that are in keep
Chain(i, keep) ==
    LET F[j \in 0..i] ==
            IF j = 0 THEN <<>>
            ELSE IF (j - 1) \in DirectoryIndices /\ (j - 1) \in keep
                 THEN Append(F[j - 1], j - 1)
                 ELSE F[j - 1]
    IN  F[i]

NamesOf(chain) == [k \in 1..Len(chain) |-> entries[chain[k] + 1].name]

EndsOf(chain) == [k \in 1..Len(chain) |-> entries[chain[k] + 1].end]

\* the directories whose range contains i, outermost first
Ancestors(i) == Chain(i, {j \in DirectoryIndices : InRange(j, i)})

\* the directories entered before index i whose end lies at or behind i
Entered(i) == Chain(i, {j \in DirectoryIndices : entries[j + 1].end >= i})

ApploaderEndClaimed ==
    LET sum == WrappingAdd(gcm_image.size, gcm_image.trailer_size)
        lo  == gcm.position + 9312 + sum.value.lo
    IN  [hi |-> sum.value.hi + (IF sum.overflow THEN Limb ELSE 0) + (lo \div Limb),
         lo |-> lo % Limb]

\* C14: from_binary parses Boot, Bi2 and Apploader in that order and
\* requires the position base+0x440 after Boot, base+0x2440 after Bi2 and
\* base+0x2460+apploader.size+apploader.trailer_size after Apploader; when
\* an equality does not hold it returns InvalidData and parses nothing
\* further.  So the call returns a value, and when it goes on behind the
\* Apploader the stream is at that position.
CE_C14 ==
    /\ gcm.result # "panic"
    /\ gcm.stage = "Executable" =>
         ApploaderEndClaimed = U32(gcm_reader.pos \div Limb,
                                   gcm_reader.pos % Limb)

(***************************************************************************)
(* CISO: properties of CisoReader                                          *)
(***************************************************************************)
\* 0-based indices of the map bytes that are not zero
Present == { i \in 0..(Len(ciso_file.map) - 1) : ciso_file.map[i + 1] # 0 }

LastPresent == CHOOSE i \in Present : \A j \in Present : j <= i

\* block i of the output, 0-based, for block size B
OutputBlock(i, B) == SubSeq(ciso_output, i * B + 1, (i + 1) * B)

\* the k-th B-byte block stored behind the header, 0-based
StoredBlock(k, B) == SubSeq(ciso_file.stored, k * B + 1, (k + 1) * B)

\* C15: for a parsed CISO with block size B the decompressed output is
\* B x (index of the last non-zero map byte + 1) bytes long; block i of it
\* is all zero when map byte i is zero and otherwise is the k-th stored
\* block, k being the number of non-zero map bytes before i.  The file
\* stores one block per non-zero map byte.
CE_C15 ==
    /\ ciso_ret = "Ok"
    /\ Len(ciso_file.stored) >= ciso_reader.block_size * Cardinality(Present)
    =>
        LET B == ciso_reader.block_size IN
        /\ Len(ciso_output) = B * (LastPresent + 1)
        /\ \A i \in 0..LastPresent :
             OutputBlock(i, B) =
                 IF i \in Present
                 THEN StoredBlock(Cardinality({ j \in Present : j < i }), B)
                 ELSE Zeros(B)

\* the header is all there, its block size is in [1, 0x8000000] and its
\* block map has a non-zero byte
CisoBodyValid ==
    /\ ciso_file.header_len = 32768
    /\ ~BlockSizeInvalid(Bu32Of(ciso_file.block_size))
    /\ Present # {}

\* C16: CisoReader::new accepts a header whose first four bytes are ASCII
\* "CISO" (0x43 0x49 0x53 0x4F), followed by a big-endian block size in
\* [1, 0x8000000] and a block map with a non-zero byte, and returns
\* InvalidMagic for any other first four bytes.
CE_C16 ==
    ciso_reader.result # "NotCalled" =>
        /\ ciso_file.magic = <<67, 73, 83, 79>> /\ CisoBodyValid =>
               ciso_reader.result = "Ok"
        /\ ciso_file.magic # <<67, 73, 83, 79>> /\ ciso_file.header_len >= 8 =>
               ciso_reader.result = "InvalidMagic"

(***************************************************************************)
(* DOL: properties of from_bytes                                           *)
(***************************************************************************)
DolParsed == dol_ret.result = "Ok"

DolSections == dol_ret.dol.sections

SectionsOfKind(kind) ==
    { k \in 1..Len(DolSections) : DolSections[k].kind = kind }

\* aligned_size - size < 32, given aligned_size >= size
LessThan32Above(aligned_size, size) ==
    LET s == WrappingAdd(size, U32(0, 31)) IN
    s.overflow \/ Leq(aligned_size, s.value)

\* C17: every section of a successfully parsed DOL, text, data and bss,
\* with or without rom-copy or bss-init information, has aligned_size a
\* multiple of 32, aligned_size >= size and aligned_size - size < 32.
CE_C17 ==
    DolParsed =>
        \A k \in 1..Len(DolSections) :
            /\ DolSections[k].aligned_size.lo % 32 = 0
            /\ Leq(DolSections[k].size, DolSections[k].aligned_size)
            /\ LessThan32Above(DolSections[k].aligned_size, DolSections[k].size)

\* the .init section of the parsed file and what its last 0x200 bytes hold
InitSection == DolSections[1]

HasInit == DolSections # <<>> /\ DolSections[1].name = ".init"

RomCopyMatches ==
    LET windows == Windows(TakeLastN(InitSection.data.bytes, 512), 12) IN
    { k \in 1..Len(windows) :
        /\ RomCopyInfo(windows[k]).rom_address = InitSection.address
        /\ RomCopyInfo(windows[k]).ram_address = InitSection.address }

BssInitMatches ==
    LET windows == Windows(TakeLastN(InitSection.data.bytes, 512), 8) IN
    { k \in 1..Len(windows) :
        BssInitInfo(windows[k]).ram_address = DolHeader(dol_bytes).bss_address }

\* C18: when the .init section holds no record matching the rom-copy
\* pattern and none matching the bss-init pattern, rom_copy_info and
\* bss_init_info are None and the section list ends with exactly one
\* synthetic .bss section built from the header's bss address and size;
\* when bss_init_info is present there is one bss section per entry.
CE_C18 ==
    DolParsed =>
        /\ HasInit /\ RomCopyMatches = {} /\ BssInitMatches = {} =>
             /\ dol_ret.dol.rom_copy_info = None
             /\ dol_ret.dol.bss_init_info = None
             /\ Cardinality(SectionsOfKind("Bss")) = 1
             /\ DolSections[Len(DolSections)] =
                    Section("Bss", ".bss", DolHeader(dol_bytes).bss_address,
                            DolHeader(dol_bytes).bss_size,
                            DolSections[Len(DolSections)].aligned_size, EmptySlice)
        /\ dol_ret.dol.bss_init_info # None =>
             Cardinality(SectionsOfKind("Bss")) = Len(dol_ret.dol.bss_init_info[1])

\* the slot has offset # 0 and size # 0 and lies below 0x100 or ends
\* behind the input
OutOfBounds(offset, size) ==
    /\ ~IsZero(offset)
    /\ ~IsZero(size)
    /\ LET end == WrappingAdd(offset, size) IN
         \/ ~Leq(ToU32(256), offset)
         \/ end.overflow
         \/ ~Leq(end.value, ToU32(Len(dol_bytes)))

BadTextSlots ==
    { i \in 0..6 : OutOfBounds(DolHeader(dol_bytes).text_offset[i + 1],
                               DolHeader(dol_bytes).text_size[i + 1]) }

BadDataSlots ==
    { i \in 0..10 : OutOfBounds(DolHeader(dol_bytes).data_offset[i + 1],
                                DolHeader(dol_bytes).data_size[i + 1]) }

\* C19: a text or data slot with offset # 0 and size # 0 whose offset is
\* below 0x100 or whose offset + size exceeds the input length makes
\* parsing return TextSectionOutOfBounds or DataSectionOutOfBounds with the
\* index of that slot, and no Dol; so every text and data section of a
\* parsed DOL has its bytes inside the input at file offset >= 0x100.
CE_C19 ==
    dol_ret.result # "NotCalled" /\ Len(dol_bytes) >= 256 =>
        /\ BadTextSlots # {} =>
             /\ dol_ret.result = "TextSectionOutOfBounds"
             /\ dol_ret.section \in BadTextSlots
        /\ BadTextSlots = {} /\ BadDataSlots # {} =>
             /\ dol_ret.result = "DataSectionOutOfBounds"
             /\ dol_ret.section \in BadDataSlots
        /\ DolParsed =>
             \A k \in SectionsOfKind("Text") \cup SectionsOfKind("Data") :
                 /\ DolSections[k].data.offset >= 256
                 /\ DolSections[k].data.offset + Len(DolSections[k].data.bytes)
                        <= Len(dol_bytes)

(***************************************************************************)
(* Shift JIS 2004: properties of Decoder::next                             *)
(***************************************************************************)
\* the rows of the mapping for the pair that step i consumed, if it consumed
\* a lead/trail pair
RowsOfStep(i) ==
    LET s == sjis_steps[i]
    IN  IF s.to # s.from + 2 THEN {}
        ELSE {x \in SjisData : /\ x.byte0 = sjis_input[s.from + 1]
                               /\ x.byte1 = sjis_input[s.from + 2]}

\* step i consumed a lead/trail pair that maps to two scalars
TwoScalars(i) == \E x \in RowsOfStep(i) : Len(x.value) = 2

\* the steps that consumed byte k of the input
ConsumedBy(k) == {i \in 1..Len(sjis_steps) : sjis_steps[i].from <= k /\ k < sjis_steps[i].to}

\* C20: when a lead/trail pair maps to two scalars, the step that consumed the
\* pair yields the first scalar and the very next step yields the second one
\* and consumes no byte; a scalar is buffered exactly between these two
\* steps; every byte the decoder has taken from the input was consumed by
\* exactly one step, and a step yields None only when the whole input has
\* been consumed.
Thm_C20 ==
    /\ \A i \in 1..Len(sjis_steps) : \A x \in RowsOfStep(i) :
          Len(x.value) = 2 =>
              /\ sjis_steps[i].item = SjisItem("Ok", x.value[1])
              /\ i < Len(sjis_steps) =>
                    /\ sjis_steps[i + 1].item = SjisItem("Ok", x.value[2])
                    /\ sjis_steps[i + 1].to = sjis_steps[i + 1].from
              /\ i = Len(sjis_steps) => sjis_decoder.buffered = Some(x.value[2])
    /\ sjis_decoder.buffered # None =>
          Len(sjis_steps) > 0 /\ TwoScalars(Len(sjis_steps))
    /\ \A k \in 0..(sjis_decoder.iter - 1) : Cardinality(ConsumedBy(k)) = 1
    /\ \A k \in sjis_decoder.iter..(Len(sjis_input) - 1) : ConsumedBy(k) = {}
    /\ \A i \in 1..Len(sjis_steps) :
          sjis_steps[i].item.kind = "None" => sjis_steps[i].to = Len(sjis_input)

\* 0x86 0x63 0x00 decoded by three steps: U+00E6 from the pair, U+0300 from
\* no byte, then NUL from the third byte
Wit_C20 ==
    /\ Len(sjis_steps) = 3
    /\ TwoScalars(1)
    /\ sjis_steps[1].item = SjisItem("Ok", 230)
    /\ sjis_steps[2] = [item |-> SjisItem("Ok", 768), from |-> 2, to |-> 2]
    /\ sjis_steps[3] = [item |-> SjisItem("Ok", 0), from |-> 2, to |-> 3]
    /\ sjis_decoder.buffered = None

(***************************************************************************)
(* Codecs: properties of all and first                                     *)
(***************************************************************************)
\* the items the decoder of a codec yields when driven from d to the end of
\* the input, errors included, each with the number of bytes consumed so far
RECURSIVE Driven(_, _, _)
Driven(codec, bytes, d) ==
    LET r == CodecNext(codec, bytes, d) IN
    IF r.item.kind = "None" THEN <<>>
    ELSE <<[item |-> r.item, to |-> r.decoder.iter]>> \o Driven(codec, bytes, r.decoder)

\* C21: for each codec, all returns the scalars of the whole input, NUL
\* scalars included, when no step of the decoder fails, and fails with the
\* first error otherwise; first returns the scalars in front of the first
\* NUL scalar, fails with the first error when one comes in front of that
\* NUL, and returns the same for every input that agrees with this one up
\* to the byte of the first NUL.
Thm_C21 ==
    codec_ret.codec \notin {"idle", "NotCalled"} =>
        LET codec == codec_ret.codec
            items == Driven(codec, codec_input, DecoderNew)
            errs  == {i \in 1..Len(items) : items[i].item.kind # "Ok"}
            nuls  == {i \in 1..Len(items) : items[i].item = SjisItem("Ok", 0)}
            stop  == IF nuls = {} THEN Len(items) + 1
                     ELSE CHOOSE i \in nuls : \A j \in nuls : i <= j
            Chars(n) == [i \in 1..n |-> items[i].item.value]
            Error(i) == StringResult(items[i].item.kind, <<>>, items[i].item.value)
            FirstError == Error(CHOOSE i \in errs : \A j \in errs : i <= j)
        IN  /\ codec_ret.all = IF errs = {} THEN StringResult("Ok", Chars(Len(items)), 0)
                               ELSE FirstError
            /\ codec_ret.first = IF \E e \in errs : e < stop THEN FirstError
                                 ELSE StringResult("Ok", Chars(stop - 1), 0)
            /\ nuls # {} =>
                  \A tail \in {t \in SjisInputs : Len(t) <= MaxSjisLen - items[stop].to} :
                      First(codec, SubSeq(codec_input, 1, items[stop].to) \o tail)
                          = codec_ret.first

\* "c", NUL and the undecodable byte 0x80: all fails on the last byte, first
\* returns "c"
Wit_C21 ==
    /\ codec_ret.codec = "ShiftJis1997"
    /\ codec_input = <<99, 0, 128>>
    /\ codec_ret.all = StringResult("InvalidByte", <<>>, 128)
    /\ codec_ret.first = StringResult("Ok", <<99>>, 0)

(***************************************************************************)
(* REL: properties of Rel::from_binary                                     *)
(***************************************************************************)

\* the header word at `at` of the image from_binary was called on
RelField(at) == AsLength(Bu32(rel_file, Offset(rel_file.origin, U32(0, at))))

\* the stream holds n bytes from the position from_binary starts at
HoldsHeader(n) == FirstShort(rel_file, rel_file.origin, <<n>>) = 0

BadSectionTable ==
    RelField(12) <= 1 \/ RelField(12) >= 32 \/ RelField(16) < 64

\* C22 as stated: every header with version > 3 is rejected with
\* UnsupportedVersion, and every header with a section count <= 1 or >= 32
\* or a section table offset < 0x40 with InvalidRange
CE_C22 ==
    (rel_ret.called /\ HoldsHeader(64)) =>
        /\ RelField(28) > 3 =>
              rel_ret.ret.kind = "Err" /\ rel_ret.ret.problem = "UnsupportedVersion"
        /\ BadSectionTable =>
              rel_ret.ret.kind = "Err" /\ rel_ret.ret.problem = "InvalidRange"

\* C22: on a stream that holds the header with the words its version adds
\* (0x4C bytes from version 3 on), from_binary returns UnsupportedVersion
\* when the version is greater than 3, and InvalidRange when the version is
\* at most 3 and the section count is <= 1 or >= 32 or the section table
\* offset is < 0x40; on a shorter stream such a header is rejected all the
\* same, with the error of the failed read.  No Rel is produced in any of
\* these cases.
Thm_C22 ==
    (rel_ret.called /\ HoldsHeader(64) /\ (RelField(28) > 3 \/ BadSectionTable)) =>
        /\ rel_ret.ret.kind = "Err"
        /\ rel_ret.ret.problem =
              IF ~HoldsHeader(IF RelField(28) >= 3 THEN 76
                              ELSE IF RelField(28) >= 2 THEN 72 ELSE 64)
              THEN "ReadFailed"
              ELSE IF RelField(28) > 3 THEN "UnsupportedVersion" ELSE "InvalidRange"

Wit_C22 ==
    /\ rel_ret.called /\ HoldsHeader(76)
    /\ RelField(28) = 4 /\ RelField(12) = 1 /\ RelField(16) = 60
    /\ rel_ret.ret.problem = "UnsupportedVersion"

\* C23: every section of a parsed Rel has a size of at most 0x2000000, the
\* sections without data (file offset 0) included
CE_C23 ==
    (rel_ret.called /\ rel_ret.ret.kind = "Ok") =>
        \A i \in 1..Len(rel_ret.ret.value.sections) :
            AsLength(rel_ret.ret.value.sections[i].size) <= 33554432

\* C25: from_binary never panics; whatever the header says, a failure is an
\* Err value
CE_C25 == rel_ret.called => rel_ret.ret.kind \in {"Ok", "Err"}

\* the import record of the image at `at`: its kind byte, and whether the
\* stream holds its 8 bytes
RecordAt(at) ==
    [kind |-> Bu32(rel_file, Offset(rel_file.origin, at)).lo \div 256,
     held |-> FirstShort(rel_file, Offset(rel_file.origin, at), <<8>>) = 0]

KnownKinds == (0..7) \cup {10, 11} \cup (201..204)

\* the records of the image from `at` up to the first one that is an End,
\* has an unknown kind byte or is cut by the end of the stream: how many
\* records come before it, and which of the three it is
RECURSIVE Walk(_, _)
Walk(at, n) ==
    LET r == RecordAt(at)
    IN  IF ~r.held THEN [before |-> n, stop |-> "Short"]
        ELSE IF r.kind = 203 THEN [before |-> n, stop |-> "End"]
        ELSE IF r.kind \notin KnownKinds THEN [before |-> n, stop |-> "Unknown"]
        ELSE Walk(Offset(at, U32(0, 8)), n + 1)

\* the list offset in the i-th import table record of the image
ListOffset(i) ==
    Bu32(rel_file, Offset(rel_file.origin,
             Offset(Bu32(rel_file, Offset(rel_file.origin, U32(0, 40))),
                    U32(0, 8 * i + 4))))

\* from_binary gets as far as the import tables, and their records lie below
\* 2^32 and inside the stream
ReachesImports ==
    /\ HoldsHeader(IF RelField(28) >= 3 THEN 76 ELSE 64)
    /\ RelField(28) <= 3 /\ ~BadSectionTable
    /\ ParseSections(rel_file, rel_file.origin,
                     Bu32(rel_file, Offset(rel_file.origin, U32(0, 16))),
                     RelField(12), <<>>).kind = "Ok"
    /\ LET import_offset == Bu32(rel_file, Offset(rel_file.origin, U32(0, 40)))
           last_record == WrappingAdd(import_offset, U32(0, RelField(44)))
       IN  /\ ~last_record.overflow
           /\ FirstShort(rel_file, Offset(rel_file.origin, import_offset),
                         <<RelField(44)>>) = 0

\* C27: in a parsed Rel every import table holds exactly the records of the
\* image from the table's list offset up to the first End, which is its last
\* import and its only End; and when from_binary reads an import record
\* whose kind byte is none of 0-7, 10, 11, 201-204, it returns InvalidData
Thm_C27 ==
    rel_ret.called =>
        /\ rel_ret.ret.kind = "Ok" =>
              \A t \in 1..Len(rel_ret.ret.value.import_tables) :
                  LET table == rel_ret.ret.value.import_tables[t]
                      imports == table.imports
                      walk == Walk(table.offset, 0)
                  IN  /\ Len(imports) >= 1
                      /\ imports[Len(imports)].kind = "DolphinEnd"
                      /\ \A j \in 1..(Len(imports) - 1) : imports[j].kind # "DolphinEnd"
                      /\ walk.stop = "End" /\ Len(imports) = walk.before + 1
                      /\ \A j \in 1..Len(imports) :
                            LET word == Bu32(rel_file,
                                    Offset(rel_file.origin,
                                           Offset(table.offset, U32(0, 8 * (j - 1)))))
                            IN  /\ imports[j].offset = word.hi
                                /\ imports[j].section = word.lo % 256
        /\ ReachesImports =>
              LET count == RelField(44) \div 8
                  unknown == {t \in 0..(count - 1) :
                                 /\ Walk(ListOffset(t), 0).stop = "Unknown"
                                 /\ \A s \in 0..(t - 1) :
                                       Walk(ListOffset(s), 0).stop = "End"}
              IN  (unknown # {}) <=>
                      (rel_ret.ret.kind = "Err" /\ rel_ret.ret.problem = "InvalidData")

\* a Rel with two import tables, parsed from an image that has a relocation
\* record right behind the End of the first list
Wit_C27 ==
    /\ rel_ret.called /\ rel_ret.ret.kind = "Ok"
    /\ Len(rel_ret.ret.value.import_tables) = 2
    /\ Len(rel_ret.ret.value.import_tables[1].imports) = 1
    /\ RecordAt(Offset(rel_ret.ret.value.import_tables[1].offset, U32(0, 8))).kind = 1

(***************************************************************************)
(* Reads cut short by the end of the stream                               *)
(***************************************************************************)

\* C24: when decompress_into stops because a read found the input at its
\* end while the output is not filled, it returns UnexpectedEndOfData
CE_C24 ==
    ( /\ result \notin {"running", "Ok", "panic"}
      /\ backref = None
      /\ input.pos = Len(input.data)
      /\ dec.dest < Len(destination) )
    => result = "UnexpectedEndOfData"

(***************************************************************************)
(* Yaz0Reader: position of a reader that holds decompressed data          *)
(***************************************************************************)

\* C26: whatever reads and seeks are made on a Yaz0Reader that holds n
\* decompressed bytes, each of them returns (a seek past n with Ok) and the
\* position stays within 0..n
CE_C26 ==
    (new_result = "Ok" /\ ~yaz0reader.transparent) =>
        /\ ~ret.panic
        /\ 0 <= yaz0reader.position
        /\ yaz0reader.position <= Len(yaz0reader.decompressed)

(***************************************************************************)
(* GCM: the FileIterator on directories with malformed ends                *)
(***************************************************************************)

\* C28: on every parsed Fst, whatever the directory ends are, each call of
\* next() that yields an item moves the index up (to the number of items
\* yielded so far), and the iterator comes to its None after yielding as
\* many items as the Fst has entries
Thm_C28 ==
    /\ [](file_iter.index = Len(fst_yielded) /\ Len(fst_yielded) <= Len(entries))
    /\ [][fst_yielded' # fst_yielded => file_iter'.index > file_iter.index]_vars
    /\ <>(fst_done /\ Len(fst_yielded) = Len(entries))

\* the walk has ended on an Fst with a directory that ends at or before its
\* own index, one that ends behind the last entry, and two directories whose
\* ranges overlap without one lying in the other
Wit_C28 ==
    /\ fst_done
    /\ Len(fst_yielded) = Len(entries)
    /\ \E i \in DirectoryIndices : entries[i + 1].end <= i
    /\ \E i \in DirectoryIndices : entries[i + 1].end > Len(entries)
    /\ \E i, j \in DirectoryIndices :
          /\ i < j /\ j < entries[i + 1].end
          /\ entries[j + 1].end > entries[i + 1].end

(***************************************************************************)
(* GCM: properties of Fst::deserialize                                     *)
(***************************************************************************)

\* the raw records deserialize was given, as many as the root record counts
GivenRaws ==
    LET root == RawEntries(fst_file.reader, 1)
    IN  IF root.ok /\ root.raws[1].third <= 16384
        THEN RawEntries(fst_file.reader, root.raws[1].third)
        ELSE [ok |-> FALSE, raws |-> <<>>, inp |-> fst_file.reader]

\* C30: deserialize returns an Err when fst_size is less than 12 times the
\* entry count, and when the name offset of an entry is greater than the
\* length fst_size - 12 * count of the name table
CE_C30 ==
    (fst_ret.kind # "NotCalled" /\ GivenRaws.ok) =>
        LET count == Len(GivenRaws.raws)
        IN  ( \/ fst_file.fst_size < 12 * count
              \/ \E i \in 2..count :
                    GivenRaws.raws[i].name > fst_file.fst_size - 12 * count )
            => fst_ret.kind = "Err"

(***************************************************************************)
(* RARC: properties of the Nodes iterator                                  *)
(***************************************************************************)

\* the items from the k-th on close, innermost first, the directories
\* `open` and every directory they begin
RECURSIVE Nested(_, _)
Nested(k, open) ==
    IF k > Len(rarc_yielded) THEN open = <<>>
    ELSE IF rarc_yielded[k].node = "DirectoryBegin"
    THEN Nested(k + 1, Append(open, rarc_yielded[k].name))
    ELSE IF rarc_yielded[k].node = "DirectoryEnd"
    THEN /\ open # <<>>
         /\ open[Len(open)] = rarc_yielded[k].name
         /\ Nested(k + 1, SubSeq(open, 1, Len(open) - 1))
    ELSE Nested(k + 1, open)

\* C29: on every parsed archive the iterator comes to its None, and the
\* items it has yielded by then are properly nested: every DirectoryBegin
\* is closed by the DirectoryEnd of the same name, innermost first
CE_C29 ==
    /\ <>rarc_done
    /\ [](rarc_done => Nested(1, <<>>))

====
